---------------------------- MODULE Spec2Model ----------------------------
(***************************************************************************)
(* Model of the bracket optimizer: the NSGA-II run of backend/optimizer.py *)
(* (problem definition, generation loop, result extraction) and the run    *)
(* cache of backend/app.py (request hash, disk cache, STL reconciliation). *)
(*                                                                         *)
(* Numbers are fixed point.  Lengths are in 1/200 mm, rib_count of a       *)
(* chromosome in 1/200 rib (the chromosome is real-valued), volumes in     *)
(* 1/10 mm^3, mass in micrograms, reported mass in 0.01 g, money in 0.01   *)
(* rupee, stress in 0.01 MPa, deflection in 0.0001 mm, the load in         *)
(* 0.00001 N.                                                              *)
(***************************************************************************)
EXTENDS Integers, Sequences, FiniteSets, TLC

VARIABLES
    env,                  \* deployment data: dataset, materials-file faults
    GLOBAL_STRESS_SIGMA,  \* optimizer.py module global
    optimization_cache,   \* app.py in-memory result index: design id -> design
    cacheDir,             \* data/cache: cache key -> file content
    modelsDir,            \* data/models: the STL files present
    geomOk,               \* whether generate_bracket_stl currently succeeds
    req,                  \* per worker: the request or call in progress
    lastRun,              \* the previous direct call of run_optimization
    np_random,            \* the generator state the last finished run left behind
    stored,               \* per cache key: the front of the response that stored it
    nreq                  \* number of optimize requests received

vars == <<env, GLOBAL_STRESS_SIGMA, optimization_cache, cacheDir, modelsDir,
          geomOk, req, lastRun, np_random, stored, nreq>>

\* ------------------------------------------------------------------ bounds
\* MaxPop and MaxGen bound the direct calls of run_optimization, AppPop and
\* AppGen are the sizes the request bodies ask for, MaxRequests bounds the
\* number of requests, LogGen the generations of the long runs.  MaxViolations,
\* MaxWarnings and MaxPrintTime (0.01 h) bound the arguments of the readiness
\* score called on its own.
MaxPop == 6
MaxGen == 4
MaxRequests == 2
AppPop == 3
AppGen == 3
LogGen == 10
MaxViolations == 7
MaxWarnings == 6
MaxPrintTime == 500

\* --------------------------------------------------------------- arithmetic
Max2(a, b) == IF a >= b THEN a ELSE b
Min2(a, b) == IF a <= b THEN a ELSE b
Abs(a) == IF a >= 0 THEN a ELSE -a

\* Python round(): n/d to the nearest integer, ties to the even one (n >= 0).
RoundHalfEven(n, d) ==
    LET q == n \div d
        r == n % d
    IN  IF 2 * r < d THEN q
        ELSE IF 2 * r > d THEN q + 1
        ELSE IF q % 2 = 0 THEN q ELSE q + 1

RECURSIVE IsqrtIn(_, _, _)
IsqrtIn(n, lo, hi) ==
    IF lo >= hi THEN lo
    ELSE LET mid == (lo + hi + 1) \div 2
         IN  IF mid * mid <= n THEN IsqrtIn(n, mid, hi) ELSE IsqrtIn(n, lo, mid - 1)

\* floor of the square root, n < 2^30
Isqrt(n) == IsqrtIn(n, 0, 32767)

RECURSIVE SumSeq(_)
SumSeq(s) == IF s = <<>> THEN 0 ELSE Head(s) + SumSeq(Tail(s))

RECURSIVE SelectIdx(_, _)
\* the indices of s, in order, whose element satisfies the boolean sequence keep
SelectIdx(s, keep) ==
    IF s = <<>> THEN <<>>
    ELSE LET n == Len(s)
             front == SelectIdx(SubSeq(s, 1, n - 1), SubSeq(keep, 1, n - 1))
         IN  IF keep[n] THEN Append(front, n) ELSE front

\* stable insertion sort of the index sequence idx by key[i], ascending
RECURSIVE SortIdx(_, _)
InsertIdx(sorted, i, key) ==
    LET pos == Cardinality({j \in 1..Len(sorted) : key[sorted[j]] <= key[i]})
    IN  SubSeq(sorted, 1, pos) \o <<i>> \o SubSeq(sorted, pos + 1, Len(sorted))
SortIdx(idx, key) ==
    IF idx = <<>> THEN <<>>
    ELSE InsertIdx(SortIdx(SubSeq(idx, 1, Len(idx) - 1), key), idx[Len(idx)], key)

\* ------------------------------------------------------ material library
\* Rows of data/materials.json as read by get_material (sample rows: the
\* file is data, not code): density in 0.01 g/cm^3, yield_strength in MPa,
\* cost_per_kg in rupees, co2_per_kg in 0.1 kg/kg.
MaterialTable ==
    [PLA |-> [name |-> "PLA", density |-> 124, yield_strength |-> 50,
              cost_per_kg |-> 100, co2_per_kg |-> 18],
     Aluminum6061 |-> [name |-> "Aluminum6061", density |-> 270,
              yield_strength |-> 276, cost_per_kg |-> 250, co2_per_kg |-> 82],
     LowYield |-> [name |-> "LowYield", density |-> 110, yield_strength |-> 5,
              cost_per_kg |-> 300, co2_per_kg |-> 20]]

MaterialKnown(material_name) == material_name \in DOMAIN MaterialTable

get_material(material_name) == MaterialTable[material_name]

\* an error text that does not tell which material was asked for
MaterialNotFoundAnonymous(material_name) == <<"Material not found">>

\* str() of the ValueError get_material raises for an unknown name (the text
\* in pieces; the list of available names is left out)
MaterialNotFound(material_name) ==
    <<"Material '", material_name, "' not found. Available: ">>

\* ---------------------------------------------------- design variables
FEATURE_COLUMNS == <<"base_length", "base_width", "base_thickness", "rib_count",
                     "rib_thickness", "fillet_radius", "hole_diameter">>
NVar == Len(FEATURE_COLUMNS)

\* BracketOptimizationProblem.__init__: xl, xu
xl == <<8000, 5000, 400, 400, 300, 200, 600>>
xu == <<14000, 8000, 1000, 1000, 700, 800, 1600>>

InBounds(x) == \A v \in 1..NVar : xl[v] <= x[v] /\ x[v] <= xu[v]

\* a params dict whose rib_count is int(X[i, 3]): cut, not rounded
EvalParamsTruncated(x) ==
    [base_length |-> x[1], base_width |-> x[2], base_thickness |-> x[3],
     rib_count |-> x[4] \div 200,
     rib_thickness |-> x[5], fillet_radius |-> x[6], hole_diameter |-> x[7]]

\* the params dict of _evaluate: rib_count is int(round(X[i, 3]))
EvalParams(x) ==
    [base_length |-> x[1], base_width |-> x[2], base_thickness |-> x[3],
     rib_count |-> RoundHalfEven(x[4], 200),
     rib_thickness |-> x[5], fillet_radius |-> x[6], hole_diameter |-> x[7]]

\* round(value, 2) of a length held in 1/200 mm
Round2(v) == 2 * RoundHalfEven(v, 2)

\* the params dict of the result extraction: geometry rounded to 2 decimals
ReportParams(x) ==
    [base_length |-> Round2(x[1]), base_width |-> Round2(x[2]),
     base_thickness |-> Round2(x[3]),
     rib_count |-> RoundHalfEven(x[4], 200),
     rib_thickness |-> Round2(x[5]), fillet_radius |-> Round2(x[6]),
     hole_diameter |-> Round2(x[7])]


\* --------------------------------------------------------------- DFM rules
\* check_dfm_rules(params): the rules in source order; a violated rule adds
\* its name to violations, a triggered warning to warnings.
StandardSizes == <<600, 800, 1000, 1200, 1600>>

\* min(standard_sizes, key=abs(x - hole)): the first size at minimal distance
ClosestSize(hole) ==
    LET best == CHOOSE i \in 1..Len(StandardSizes) :
                   /\ \A j \in 1..Len(StandardSizes) :
                         Abs(StandardSizes[i] - hole) <= Abs(StandardSizes[j] - hole)
                   /\ \A j \in 1..(i - 1) :
                         Abs(StandardSizes[j] - hole) > Abs(StandardSizes[i] - hole)
    IN  StandardSizes[best]

RuleIf(cond, name) == IF cond THEN <<name>> ELSE <<>>

\* rule 5: the number of gaps the ribs divide the base length into
RibSpacingDivisor(params) == params.rib_count + 1

check_dfm_rules(params) ==
    LET violations ==
            RuleIf(params.base_thickness < 400, "base_thickness_min")
         \o RuleIf(params.rib_thickness < 300, "rib_thickness_min")
         \o RuleIf(Abs(params.hole_diameter - ClosestSize(params.hole_diameter)) > 100,
                   "hole_not_standard")
         \o RuleIf(params.fillet_radius < 200, "fillet_min")
         \o RuleIf(params.rib_count > 0
                     /\ params.base_length \div RibSpacingDivisor(params) < 2000,
                   "rib_spacing")
         \o RuleIf(params.base_width \div 2 - params.hole_diameter
                     < params.hole_diameter * 2, "hole_edge")
        warnings ==
            RuleIf(params.base_thickness > 1600, "warping")
         \o RuleIf(params.rib_count > 5, "rib_count_max")
         \o RuleIf(params.base_length > 3 * params.base_width, "aspect_ratio")
         \o RuleIf(params.rib_thickness < 400 /\ 20 > 20, "thin_ribs")
         \o RuleIf(params.base_thickness > 1200, "thick_base")
    IN  [is_valid |-> Len(violations) = 0,
         violations |-> violations,
         warnings |-> warnings]

\* a score without the floor at 0
calculate_print_readiness_score_unfloored(params, dfm_result, print_time_hours) ==
    100 - 10 * Len(dfm_result.violations) - 5 * Len(dfm_result.warnings)
        - Min2(20, ((print_time_hours * 20) \div 200))

\* calculate_print_readiness_score; print_time_hours in 0.01 h
calculate_print_readiness_score(params, dfm_result, print_time_hours) ==
    LET violation_penalty == 10 * Len(dfm_result.violations)
        warning_penalty == 5 * Len(dfm_result.warnings)
        score_time == Min2(20, ((print_time_hours * 20) \div 200))
    IN  Max2(0, 100 - violation_penalty - warning_penalty - score_time)

\* ---------------------------------------------------------- cost estimator
BaseVolume(params) ==
    (((params.base_length * params.base_width) \div 400) * params.base_thickness) \div 2000

RibVolumeEach(params) == ((params.rib_thickness * params.base_width) \div 400) * 2

HoleVolume(params) ==
    ((((((params.hole_diameter * params.hole_diameter) \div 400)
            * params.base_thickness) \div 200) * 355) \div 4520)

\* the figures of the estimate for '3d_printing' (lines 30-89)
CostFigures(params, material_name) ==
    LET material == get_material(material_name)
        total_volume == BaseVolume(params) + RibVolumeEach(params) * params.rib_count
                          - HoleVolume(params)
        mass_ug == total_volume * material.density
        material_cost == ((mass_ug \div 1000) * material.cost_per_kg) \div 1000
        print_time_hours == ((params.base_thickness + 4000) * 25) \div 1200
        machine_cost == ((params.base_thickness + 4000) * 25) \div 24
        setup_cost == 5000
    IN  [total_volume |-> total_volume, mass_ug |-> mass_ug,
         material_cost |-> material_cost, machine_cost |-> machine_cost,
         setup_cost |-> setup_cost, print_time_hours |-> print_time_hours]

\* an estimate that also reports the print time at the top level
calculate_manufacturing_cost_with_time(params, material_name) ==
    LET c == CostFigures(params, material_name)
    IN  [total_cost |-> RoundHalfEven(c.material_cost + c.machine_cost + c.setup_cost, 10),
         material_cost |-> RoundHalfEven(c.material_cost, 10),
         machine_cost |-> RoundHalfEven(c.machine_cost, 10),
         setup_cost |-> 500,
         print_time_hours |-> c.print_time_hours,
         breakdown |-> [mass_kg |-> RoundHalfEven(c.mass_ug, 100000),
                        volume_cm3 |-> RoundHalfEven(c.total_volume, 100),
                        manufacturing_time_hours |-> c.print_time_hours]]

\* calculate_manufacturing_cost(params, material_name, '3d_printing'): the
\* dictionary returned (lines 91-101)
calculate_manufacturing_cost(params, material_name) ==
    LET c == CostFigures(params, material_name)
    IN  [total_cost |-> RoundHalfEven(c.material_cost + c.machine_cost + c.setup_cost, 10),
         material_cost |-> RoundHalfEven(c.material_cost, 10),
         machine_cost |-> RoundHalfEven(c.machine_cost, 10),
         setup_cost |-> 500,
         breakdown |-> [mass_kg |-> RoundHalfEven(c.mass_ug, 100000),
                        volume_cm3 |-> RoundHalfEven(c.total_volume, 100),
                        manufacturing_time_hours |-> c.print_time_hours]]

\* dict.get(key, default)
DictGet(d, key, default) == IF key \in DOMAIN d THEN d[key] ELSE default

\* The estimator reads data/materials.json on every call (get_material,
\* load_materials), and that read is what can raise.  faults is the set of
\* the calls of a run, counted from 1, at which the file cannot be read.
CostEstimatorRaises(call, faults) == call \in faults

\* ------------------------------------------------------- surrogate ensemble
\* The two pickled ensembles: EnsembleSize opaque point predictors each.
EnsembleSize == 10

StressMember(m, p) ==
    2400 + (p.base_length - 8000) \div 4 - 3 * (p.base_thickness - 400)
         - 200 * (p.rib_count - 2)
         + (IF p.hole_diameter > 1000 THEN 300 ELSE 0)
         + 40 * ((m * 7) % 5) - 80

DeflectionMember(m, p) ==
    7000 + (p.base_length - 8000) \div 2 - 5 * (p.base_thickness - 400)
         - 400 * (p.rib_count - 2) + 30 * ((m * 3) % 7)
         + (m % 3) * ((p.base_width - 5000) \div 100)

ModelPredict(kind, m, p) ==
    IF kind = "stress" THEN StressMember(m, p) ELSE DeflectionMember(m, p)

\* a spread that is the variance of the predictions, not its square root
predict_with_variance(kind, p) ==
    LET predictions == [m \in 1..EnsembleSize |-> ModelPredict(kind, m, p)]
        total == SumSeq(predictions)
        dev2 == [m \in 1..EnsembleSize |->
                    (EnsembleSize * predictions[m] - total)
                      * (EnsembleSize * predictions[m] - total)]
    IN  [mean |-> total \div EnsembleSize,
         std |-> (SumSeq(dev2) \div EnsembleSize) \div (EnsembleSize * EnsembleSize)]

\* predict_with_uncertainty: (predictions.mean(), predictions.std())
predict_with_uncertainty(kind, p) ==
    LET predictions == [m \in 1..EnsembleSize |-> ModelPredict(kind, m, p)]
        total == SumSeq(predictions)
        dev2 == [m \in 1..EnsembleSize |->
                    (EnsembleSize * predictions[m] - total)
                      * (EnsembleSize * predictions[m] - total)]
    IN  [mean |-> total \div EnsembleSize,
         std |-> Isqrt(SumSeq(dev2) \div EnsembleSize) \div EnsembleSize]

\* ------------------------------------------------------ problem definition
SafetyFactorNum == 3      \* safety_factor_target = 1.5 = 3/2
SafetyFactorDen == 2
MaxDeflection == 10000    \* max_deflection = 1.0 mm

\* a fallback that leaves out the fixed 10 rupees
FallbackCostNoFee(mass, material) ==
    ((mass \div 1000) * material.cost_per_kg) \div 10000

\* the except branch of _evaluate: mass * cost_per_kg / 1000 + 10, mass in
\* micrograms, the result in 0.01 rupee
FallbackCost(mass, material) ==
    (((mass \div 1000) * material.cost_per_kg) \div 10000) + 1000

\* a DFM constraint that counts the violated rules
DfmConstraintCount(dfm) == Len(dfm.violations)

\* g3[i] = 0.0 if dfm['is_valid'] else 1.0
DfmConstraint(dfm) == IF dfm.is_valid THEN 0 ELSE 1

\* One pass of the loop body of BracketOptimizationProblem._evaluate.
\* F = <<mass in micrograms, cost in 0.01 rupee>>; G = <<g1, g2, g3>> with g1
\* in 1/300 MPa, g2 in 0.0001 mm and g3 in {0, 1}.
EvaluateOne(x, material_name, estimator_raises) ==
    LET params == EvalParams(x)
        material == get_material(material_name)
        stress == predict_with_uncertainty("stress", params).mean
        deflection == predict_with_uncertainty("deflection", params).mean
        total_volume == BaseVolume(params) + RibVolumeEach(params) * params.rib_count
        mass == total_volume * material.density
        cost == IF estimator_raises
                THEN FallbackCost(mass, material)
                ELSE calculate_manufacturing_cost(params, material_name).total_cost
        dfm == check_dfm_rules(params)
        g1 == SafetyFactorNum * stress
                - 100 * SafetyFactorDen * material.yield_strength
        g2 == deflection - MaxDeflection
        g3 == DfmConstraint(dfm)
    IN  [X |-> x, F |-> <<mass, cost>>, G |-> <<g1, g2, g3>>]

\* (g1 <= 0) & (g2 <= 0) & (g3 <= 0)
Feasible(ind) == ind.G[1] <= 0 /\ ind.G[2] <= 0 /\ ind.G[3] <= 0

\* a rule that leaves out the message of the first generation
LogDueEveryFifth(generation) == generation % 5 = 0

\* the generations that get a message: every fifth one and the first
LogDue(generation) == generation % 5 = 0 \/ generation = 1

\* a logger that counts the generation and records nothing
_log_generation_insights_silent(problem, batch) ==
    [problem EXCEPT !.current_generation = problem.current_generation + 1]

\* _log_generation_insights: the state of the problem after one more batch
_log_generation_insights(problem, batch) ==
    LET n == Len(batch)
        generation == problem.current_generation + 1
        nFeasible == Cardinality({i \in 1..n : Feasible(batch[i])})
        best_mass == CHOOSE m \in {batch[i].F[1] : i \in 1..n} :
                        \A i \in 1..n : m <= batch[i].F[1]
        best_cost == CHOOSE c \in {batch[i].F[2] : i \in 1..n} :
                        \A i \in 1..n : c <= batch[i].F[2]
        message == [generation |-> generation,
                    feasible_pct |-> (100 * nFeasible) \div n,
                    avg_thickness |->
                        SumSeq([i \in 1..n |-> batch[i].X[3]]) \div (2 * n),
                    avg_ribs |->
                        (10 * SumSeq([i \in 1..n |-> RoundHalfEven(batch[i].X[4], 200)]))
                           \div n,
                    best_mass |-> RoundHalfEven(best_mass, 10000),
                    best_cost |-> best_cost,
                    stress_violations |->
                        Cardinality({i \in 1..n : batch[i].G[1] > 0}),
                    dfm_failures |->
                        Cardinality({i \in 1..n : batch[i].G[3] > 0})]
    IN  [problem EXCEPT
            !.current_generation = generation,
            !.best_mass_history = Append(@, best_mass),
            !.best_cost_history = Append(@, best_cost),
            !.logs = IF LogDue(generation) THEN Append(@, message) ELSE @]

\* BracketOptimizationProblem.__init__ after get_material succeeded
NewProblem(load, material_name) ==
    [load |-> load, material_name |-> material_name,
     current_generation |-> 0, logs |-> <<>>,
     best_mass_history |-> <<>>, best_cost_history |-> <<>>]

\* _evaluate on a batch X: out["F"], out["G"] row per design; calls is the
\* number of calls of the estimator the run has made before the batch
_evaluate(X, material_name, calls, faults) ==
    [i \in 1..Len(X) |->
        EvaluateOne(X[i], material_name, CostEstimatorRaises(calls + i, faults))]

\* ------------------------------------------------------------ NSGA-II run
\* The engine behind minimize(problem, NSGA2(...), ("n_gen", n_gen), seed=42):
\* random sampling, binary tournament, SBX crossover, polynomial mutation,
\* duplicate elimination, rank-and-crowding survival.  The random stream is a
\* deterministic generator standing for the seeded generator.
Seed == 42

\* The generator is counter based: its state is the number of draws made
\* since seeding (mod 2^16) and draw number c is a scrambling of c.
Scramble(c) ==
    LET m1 == ((c % 65536) * 25173 + 13849) % 65536
        m2 == (m1 \div 256) + (m1 % 256) * 256
    IN  (m2 * 9301 + 49297 + (m1 \div 16)) % 65536

\* the next state after n draws
Advance(s, n) == (s + n) % 65536

\* draws 1..n made from state s (index 0 is unused by the callers)
Stream(s, n) == [i \in 0..n |-> Scramble(s + i)]

Uniform(s, lo, hi) == lo + ((s \div 8) % (hi - lo + 1))

\* a run that goes on from the generator state the previous run left
SeedRngLeftover(previous) == previous

\* the generator state a run starts from: minimize(..., seed=42) reseeds
SeedRng(previous) == Seed

\* offspring passed on without repair
ClampToBoundsSkipped(x) == x

\* set_to_bounds_if_outside / the clamping of SBX: the repair to [xl, xu]
ClampToBounds(x) == [v \in 1..NVar |-> Max2(xl[v], Min2(xu[v], x[v]))]

\* FloatRandomSampling: n designs, xl + rand * (xu - xl) per variable
Sampling(s, n) ==
    LET st == Stream(s, n * NVar)
    IN  [X |-> [i \in 1..n |->
                  [v \in 1..NVar |-> Uniform(st[(i - 1) * NVar + v], xl[v], xu[v])]],
         rng |-> Advance(s, n * NVar)]

\* eliminate_duplicates: the designs of cand, in order, that equal neither a
\* member of others nor an earlier design of cand
RECURSIVE EliminateDuplicates(_, _)
EliminateDuplicates(cand, others) ==
    IF cand = <<>> THEN <<>>
    ELSE LET n == Len(cand)
             kept == EliminateDuplicates(SubSeq(cand, 1, n - 1), others)
         IN  IF \/ \E i \in 1..Len(others) : others[i] = cand[n]
                \/ \E i \in 1..Len(kept) : kept[i] = cand[n]
             THEN kept ELSE Append(kept, cand[n])

\* pymoo's CV: the sum of the positive parts of G, in 1/30000
ConstraintViolation(ind) ==
    100 * Max2(0, ind.G[1]) + 3 * Max2(0, ind.G[2]) + 30000 * Max2(0, ind.G[3])

\* standard Pareto dominance over (mass, cost)
ParetoDominates(fa, fb) ==
    /\ fa[1] <= fb[1] /\ fa[2] <= fb[2]
    /\ (fa[1] < fb[1] \/ fa[2] < fb[2])

\* the constrained-dominance rule of the tournament and of the survival
ConstrainedDominates(a, b) ==
    IF ConstraintViolation(a) > 0 \/ ConstraintViolation(b) > 0
    THEN ConstraintViolation(a) < ConstraintViolation(b)
    ELSE ParetoDominates(a.F, b.F)

Infinity == 2000000000

\* non-dominated sorting of the individuals idx (a sequence of indices of P)
\* on F alone: the sequence of fronts, each in index order
RECURSIVE NonDominatedSorting(_, _)
NonDominatedSorting(P, idx) ==
    IF idx = <<>> THEN <<>>
    ELSE LET first == [k \in 1..Len(idx) |->
                         ~\E j \in 1..Len(idx) : ParetoDominates(P[idx[j]].F, P[idx[k]].F)]
             front == [k \in 1..Len(SelectIdx(idx, first)) |->
                         idx[SelectIdx(idx, first)[k]]]
             rest == [k \in 1..Len(SelectIdx(idx, [q \in 1..Len(idx) |-> ~first[q]])) |->
                         idx[SelectIdx(idx, [q \in 1..Len(idx) |-> ~first[q]])[k]]]
         IN  <<front>> \o NonDominatedSorting(P, rest)

\* crowding distance of the members of one front (objectives coarsened to
\* 0.01 g and 0.01 rupee, the two normalised terms on a common denominator)
CrowdingDistance(P, front) ==
    LET n == Len(front)
        c(i, m) == IF m = 1 THEN P[front[i]].F[1] \div 10000 ELSE P[front[i]].F[2]
        hi(m) == CHOOSE z \in {c(i, m) : i \in 1..n} : \A i \in 1..n : z >= c(i, m)
        lo(m) == CHOOSE z \in {c(i, m) : i \in 1..n} : \A i \in 1..n : z <= c(i, m)
        range(m) == hi(m) - lo(m)
        order(m) == SortIdx([i \in 1..n |-> i], [i \in 1..n |-> c(i, m)])
        pos(i, m) == CHOOSE k \in 1..n : order(m)[k] = i
        gap(i, m) == c(order(m)[pos(i, m) + 1], m) - c(order(m)[pos(i, m) - 1], m)
        edge(i) == \E m \in 1..2 : pos(i, m) = 1 \/ pos(i, m) = n
    IN  [i \in 1..n |->
           IF n <= 2 \/ edge(i) THEN Infinity
           ELSE (IF range(1) = 0 THEN 0 ELSE gap(i, 1) * Max2(1, range(2)))
              + (IF range(2) = 0 THEN 0 ELSE gap(i, 2) * Max2(1, range(1)))]

\* the evaluated individual as the population holds it (rank and crowding
\* are -1 until a survival ranks the individual)
Individual(e) ==
    [X |-> e.X, F |-> e.F, G |-> e.G, CV |-> ConstraintViolation(e),
     rank |-> -1, crowding |-> -1]

\* the survivors taken from the fronts, front by front, until n_survive are in;
\* the front that does not fit is cut by descending crowding distance
RECURSIVE TakeFronts(_, _, _, _)
TakeFronts(P, fronts, k, n_survive) ==
    IF k > Len(fronts) \/ n_survive = 0 THEN <<>>
    ELSE LET front == fronts[k]
             cd == CrowdingDistance(P, front)
             ranked == [j \in 1..Len(front) |->
                          [P[front[j]] EXCEPT !.rank = k - 1, !.crowding = cd[j]]]
             byCrowding == SortIdx([j \in 1..Len(front) |-> j],
                                   [j \in 1..Len(front) |-> Infinity - cd[j]])
         IN  IF Len(front) > n_survive
             THEN [j \in 1..n_survive |-> ranked[byCrowding[j]]]
             ELSE ranked \o TakeFronts(P, fronts, k + 1, n_survive - Len(front))

\* Survival.do of RankAndCrowding: the feasible individuals are ranked and
\* cut by fronts; the places left are filled with the infeasible ones in
\* ascending order of constraint violation
SurvivalDo(P, n_survive) ==
    LET n == Min2(n_survive, Len(P))
        all == [i \in 1..Len(P) |-> i]
        feas == [k \in 1..Len(SelectIdx(all, [i \in 1..Len(P) |-> P[i].CV <= 0])) |->
                    SelectIdx(all, [i \in 1..Len(P) |-> P[i].CV <= 0])[k]]
        infeas == SortIdx(
                    [k \in 1..Len(SelectIdx(all, [i \in 1..Len(P) |-> P[i].CV > 0])) |->
                        SelectIdx(all, [i \in 1..Len(P) |-> P[i].CV > 0])[k]],
                    [i \in 1..Len(P) |-> P[i].CV])
        survivors == TakeFronts(P, NonDominatedSorting(P, feas), 1,
                                Min2(Len(feas), n))
        n_remaining == n - Len(survivors)
    IN  survivors \o [k \in 1..Min2(n_remaining, Len(infeas)) |-> P[infeas[k]]]

\* binary_tournament: the winner of a and b (indices of pop); r breaks ties
BinaryTournament(pop, a, b, r) ==
    IF pop[a].CV > 0 \/ pop[b].CV > 0
    THEN IF pop[a].CV < pop[b].CV THEN a
         ELSE IF pop[b].CV < pop[a].CV THEN b
         ELSE IF r % 2 = 0 THEN a ELSE b
    ELSE IF ParetoDominates(pop[a].F, pop[b].F) THEN a
         ELSE IF ParetoDominates(pop[b].F, pop[a].F) THEN b
         ELSE IF pop[a].crowding > pop[b].crowding THEN a
         ELSE IF pop[b].crowding > pop[a].crowding THEN b
         ELSE IF r % 2 = 0 THEN a ELSE b

\* SBX on one variable of two parents: the two children before repair
CrossVar(r, p1, p2) ==
    LET k == (r \div 8) % 4
        d == (p2 - p1) \div 4
    IN  IF k = 0 THEN <<p1, p2>>
        ELSE IF k = 1 THEN <<p1 + d, p2 - d>>
        ELSE IF k = 2 THEN <<p1 - d, p2 + d>>
        ELSE <<p2, p1>>

\* polynomial mutation of one variable before repair
MutateVar(r, v, value) ==
    LET width == xu[v] - xl[v]
    IN  IF (r \div 8) % NVar = 0
        THEN value + ((r \div 64) % (width \div 2 + 1)) - width \div 4
        ELSE value

DrawsPerMating == 4 + 3 * NVar

\* one mating: two tournaments, SBX, mutation of both children, repair.
\* st is the random stream, base the number of draws already used.
MatingPair(pop, st, base) ==
    LET n == Len(pop)
        pa == BinaryTournament(pop, 1 + ((st[base + 1] \div 8) % n),
                               1 + ((st[base + 2] \div 8) % n), st[base + 2] \div 16)
        pb == BinaryTournament(pop, 1 + ((st[base + 3] \div 8) % n),
                               1 + ((st[base + 4] \div 8) % n), st[base + 4] \div 16)
        crossed == [v \in 1..NVar |->
                      CrossVar(st[base + 4 + v], pop[pa].X[v], pop[pb].X[v])]
        child(c) == [v \in 1..NVar |->
                       MutateVar(st[base + 4 + c * NVar + v], v, crossed[v][c])]
    IN  <<ClampToBounds(child(1)), ClampToBounds(child(2))>>

\* Mating._do: ceil(n_remaining / 2) matings, two children each
MatingRound(pop, s, n_remaining) ==
    LET n_matings == (n_remaining + 1) \div 2
        st == Stream(s, n_matings * DrawsPerMating)
        pairs == [j \in 1..n_matings |-> MatingPair(pop, st, (j - 1) * DrawsPerMating)]
    IN  [X |-> [k \in 1..(2 * n_matings) |-> pairs[(k + 1) \div 2][2 - (k % 2)]],
         rng |-> Advance(s, n_matings * DrawsPerMating)]

\* n_max_iterations of the mating loop
MatingMaxIterations == 100

\* InfillCriterion.do: rounds of mating until n_offsprings distinct new designs
\* exist or the iteration limit is hit
RECURSIVE MatingDo(_, _, _, _, _)
MatingDo(pop, off, s, n_offsprings, n_infills) ==
    IF Len(off) >= n_offsprings \/ n_infills >= MatingMaxIterations
    THEN [X |-> off, rng |-> s]
    ELSE LET n_remaining == n_offsprings - Len(off)
             round == MatingRound(pop, s, n_remaining)
             fresh == EliminateDuplicates(round.X,
                          [i \in 1..Len(pop) |-> pop[i].X] \o off)
         IN  MatingDo(pop, off \o SubSeq(fresh, 1, Min2(Len(fresh), n_remaining)),
                      round.rng, n_offsprings, n_infills + 1)

\* a result that keeps every feasible member of the population, ranked or not
ResultOfAllFeasible(pop) ==
    IF \E i \in 1..Len(pop) : pop[i].CV <= 0
    THEN LET all == [i \in 1..Len(pop) |-> i]
             opt == SelectIdx(all, [i \in 1..Len(pop) |-> pop[i].CV <= 0])
         IN  [found |-> TRUE, opt |-> [k \in 1..Len(opt) |-> pop[opt[k]]]]
    ELSE [found |-> FALSE, opt |-> <<>>]

\* a result that is the whole final population once it holds a feasible member
ResultOfWholePopulation(pop) ==
    IF \E i \in 1..Len(pop) : pop[i].CV <= 0
    THEN [found |-> TRUE, opt |-> pop]
    ELSE [found |-> FALSE, opt |-> <<>>]

\* NSGA2._set_optimum followed by Algorithm.result() with the default
\* return_least_infeasible = False: the rank-0 members of the population when
\* it holds a feasible individual, otherwise nothing (result.F is None)
ResultOf(pop) ==
    IF \E i \in 1..Len(pop) : pop[i].CV <= 0
    THEN LET all == [i \in 1..Len(pop) |-> i]
             opt == SelectIdx(all, [i \in 1..Len(pop) |-> pop[i].rank = 0])
         IN  [found |-> TRUE, opt |-> [k \in 1..Len(opt) |-> pop[opt[k]]]]
    ELSE [found |-> FALSE, opt |-> <<>>]

\* ---------------------------------------------------- aleatoric stress sigma
\* data/training_data.csv when it is readable and not empty
DatasetRows ==
    << [x |-> <<10000, 6000, 600, 600, 400, 400, 1000>>, max_stress |-> 4150],
       [x |-> <<12000, 7000, 800, 400, 500, 300, 1200>>, max_stress |-> 3930],
       [x |-> <<9000, 5000, 500, 800, 600, 600, 800>>, max_stress |-> 3480] >>

DefaultSigma == 500

\* np.std(residuals, ddof=1) of max_stress minus the ensemble-mean prediction
ResidualSigma ==
    LET n == Len(DatasetRows)
        residuals == [i \in 1..n |->
                        DatasetRows[i].max_stress
                          - predict_with_uncertainty("stress",
                                EvalParams(DatasetRows[i].x)).mean]
        total == SumSeq(residuals)
        dev2 == [i \in 1..n |-> (n * residuals[i] - total) * (n * residuals[i] - total)]
    IN  Isqrt(SumSeq(dev2) \div (n - 1)) \div n

\* _get_global_stress_sigma: the new value of GLOBAL_STRESS_SIGMA, which is
\* also what the call returns; <<>> is None
_get_global_stress_sigma(current, dataset) ==
    IF current # <<>> THEN current
    ELSE IF dataset = "missing" THEN <<DefaultSigma>>
    ELSE IF dataset = "ok" THEN <<ResidualSigma>>
    ELSE <<>>

\* lines 52-62: the call gets as far as pd.read_csv when no value is
\* remembered and the file exists
SigmaReadsDataset(current, dataset) == current = <<>> /\ dataset # "missing"

\* -------------------------------------------------------- result extraction
\* the design_entry built for result.X[i], result.F[i]; i counts from 0.
\* stress_ci95 and stl_file are <<>> when the key is absent or None.
DesignEntry(ind, i, material_name, global_sigma) ==
    LET params == ReportParams(ind.X)
        material == get_material(material_name)
        stress == predict_with_uncertainty("stress", params)
        defl == predict_with_uncertainty("deflection", params)
        dfm_result == check_dfm_rules(params)
        cost_result == calculate_manufacturing_cost(params, material_name)
        \* cost_result.get('print_time_hours', 1.0), in 0.01 h
        print_time == DictGet(cost_result, "print_time_hours", 100)
        mass_mg == ind.F[1] \div 1000
        safety_milli == IF stress.mean > 0
                        THEN (material.yield_strength * 100000) \div stress.mean
                        ELSE 0
    IN  [id |-> i,
         parameters |-> params,
         mass |-> RoundHalfEven(ind.F[1], 10000),
         cost |-> ind.F[2],
         stress_predicted |-> stress.mean,
         stress_confidence_95 |-> RoundHalfEven(196 * stress.std, 100),
         deflection_predicted |-> defl.mean,
         deflection_confidence_95 |-> RoundHalfEven(196 * defl.std, 100),
         print_score |->
             calculate_print_readiness_score(params, dfm_result, print_time),
         print_time_hours |-> print_time,
         co2_kg |-> RoundHalfEven(mass_mg * material.co2_per_kg, 1000),
         efficiency_index |-> IF mass_mg > 0
                              THEN (safety_milli * 100000) \div mass_mg ELSE 0,
         stress_ci95 |-> IF global_sigma # <<>>
                         THEN <<RoundHalfEven(196 * global_sigma[1], 100)>>
                         ELSE <<>>,
         stl_file |-> <<>>]

\* _generate_mentor_summary: the run-dependent figures of the summary
_generate_mentor_summary(pareto_solutions, pop_size, n_gen) ==
    LET n == Len(pareto_solutions)
    IN  [total_designs |-> pop_size * n_gen, n_gen |-> n_gen, n_pareto |-> n,
         mass_lo |-> pareto_solutions[1].mass, mass_hi |-> pareto_solutions[n].mass,
         cost_lo |-> pareto_solutions[1].cost, cost_hi |-> pareto_solutions[n].cost]

\* the entries left in the order of result.X
SortedByMassSkipped(entries) == entries

\* sorted(pareto_solutions, key=lambda x: x['mass']): stable, ascending
SortedByMass(entries) ==
    LET order == SortIdx([i \in 1..Len(entries) |-> i],
                         [i \in 1..Len(entries) |-> entries[i].mass])
    IN  [k \in 1..Len(entries) |-> entries[order[k]]]

\* lines 334-429 of run_optimization: package, sort by mass, summarise
PackageResults(opt, problem, inputs, global_sigma) ==
    LET n_solutions == Len(opt)
        unsorted == [i \in 1..n_solutions |->
                        DesignEntry(opt[i], i - 1, inputs.material, global_sigma)]
        pareto_solutions == SortedByMass(unsorted)
    IN  [pareto_front |-> pareto_solutions,
         n_generations |-> inputs.n_gen,
         n_evaluations |-> inputs.pop_size * inputs.n_gen,
         mentor_log |-> problem.logs,
         mentor_summary |-> _generate_mentor_summary(pareto_solutions, inputs.pop_size, inputs.n_gen),
         stress_sigma |-> global_sigma]

\* ------------------------------------------------------------ process state
Procs == {1, 2}

NoInputs == [load |-> 0, material |-> "", pop_size |-> 0, n_gen |-> 0]

NoRun ==
    [phase |-> "None", n_gen |-> 0, rng |-> 0, cost_calls |-> 0,
     pop |-> <<>>, off |-> <<>>,
     merged |-> <<>>, problem |-> NewProblem(0, ""), everFeasible |-> FALSE,
     forced |-> FALSE, result |-> [found |-> FALSE, opt |-> <<>>]]

\* before is the cache directory and the index as the request found them;
\* read_csv tells that the call read the reference dataset to estimate sigma;
\* seen is what the cache lookup found on disk; later tells that the request
\* came after a request with the same inputs had stored its record
IdleReq ==
    [pc |-> "idle", kind |-> "none", body |-> <<>>, inputs |-> NoInputs,
     cache_key |-> <<>>, hit |-> FALSE, seen |-> <<>>, later |-> FALSE,
     regen |-> <<>>, runCalls |-> 0, run |-> NoRun, results |-> <<>>,
     read_csv |-> FALSE, payload |-> <<>>, error |-> <<>>, response |-> <<>>,
     before |-> <<>>]

\* ------------------------------------------------------------------ inputs
\* The arguments of the calls explored.  The load takes no part in the
\* evaluation of a design, so one value stands for all.
EngineLoads == {5000000}
EngineMaterials == {"PLA", "LowYield"}
EngineInputs ==
    [load : EngineLoads, material : EngineMaterials,
     pop_size : {1, MaxPop}, n_gen : 1..MaxGen]

DatasetStates == {"missing", "empty", "ok"}

\* the deployments explored: each state of the reference dataset with a
\* materials file that stays readable, and one in which the second call of
\* the estimator in every run finds the file unreadable
EstimatorFaults == {{2}}
Deployments ==
    [dataset : DatasetStates, faults : {{}}, artifacts : {TRUE}]
        \cup [dataset : {"ok"}, faults : EstimatorFaults, artifacts : {TRUE}]

\* a deployment with the dataset, the materials file and the two ensemble
\* files in place
HealthyEnv == [dataset |-> "ok", faults |-> {}, artifacts |-> TRUE]

\* ------------------------------------------------- run_optimization, by steps
\* lines 276-327 up to the start of minimize: load the models, build the
\* problem (get_material may raise), resolve the global sigma, seed the run
Setup(w) ==
    /\ req[w].pc = "call"
    /\ IF ~env.artifacts
       THEN /\ req' = [req EXCEPT ![w].pc = "raised",
                                  ![w].runCalls = @ + 1,
                                  ![w].error = <<"No such file or directory: ",
                                                 "stress_ensemble.pkl">>]
            /\ UNCHANGED GLOBAL_STRESS_SIGMA
       ELSE IF ~MaterialKnown(req[w].inputs.material)
       THEN /\ req' = [req EXCEPT ![w].pc = "raised",
                                  ![w].runCalls = @ + 1,
                                  ![w].error = MaterialNotFound(req[w].inputs.material)]
            /\ UNCHANGED GLOBAL_STRESS_SIGMA
       ELSE /\ GLOBAL_STRESS_SIGMA' =
                   _get_global_stress_sigma(GLOBAL_STRESS_SIGMA, env.dataset)
            /\ req' = [req EXCEPT
                   ![w].pc = "run",
                   ![w].runCalls = @ + 1,
                   ![w].read_csv = SigmaReadsDataset(GLOBAL_STRESS_SIGMA, env.dataset),
                   ![w].run = [NoRun EXCEPT
                       !.phase = "Initialized",
                       !.rng = SeedRng(np_random),
                       !.problem = NewProblem(req[w].inputs.load,
                                              req[w].inputs.material)]]
    /\ UNCHANGED <<env, optimization_cache, cacheDir, modelsDir, geomOk, lastRun,
                   np_random, stored, nreq>>

\* a termination that is met from the first generation on
TerminationMetAtOnce(run, inputs) == run.n_gen >= 1

\* the termination ("n_gen", n_gen), or the forced one
TerminationMet(run, inputs) == run.n_gen >= inputs.n_gen \/ run.forced

\* the first generation: sample, evaluate the batch, rank
InitialEvaluate(w) ==
    LET run == req[w].run
        sample == Sampling(run.rng, req[w].inputs.pop_size)
        X == EliminateDuplicates(sample.X, <<>>)
        batch == _evaluate(X, req[w].inputs.material, run.cost_calls, env.faults)
        infills == [i \in 1..Len(batch) |-> Individual(batch[i])]
    IN  /\ req[w].pc = "run"
        /\ run.phase = "Initialized"
        /\ req' = [req EXCEPT ![w].run = [run EXCEPT
               !.phase = "Evaluated",
               !.n_gen = 1,
               !.rng = sample.rng,
               !.cost_calls = @ + Len(batch),
               !.off = infills,
               !.merged = infills,
               !.pop = SurvivalDo(infills, Len(infills)),
               !.problem = _log_generation_insights(run.problem, batch),
               !.everFeasible = \E i \in 1..Len(batch) : Feasible(batch[i])]]
        /\ UNCHANGED <<env, GLOBAL_STRESS_SIGMA, optimization_cache, cacheDir,
                       modelsDir, geomOk, lastRun, np_random, stored, nreq>>

\* one more generation: mating, evaluation of the offspring, merge, survival.
\* A mating that yields no new design forces the termination of the run.
Evolve(w) ==
    LET run == req[w].run
        mating == MatingDo(run.pop, <<>>, run.rng, req[w].inputs.pop_size, 0)
        batch == _evaluate(mating.X, req[w].inputs.material, run.cost_calls,
                           env.faults)
        off == [i \in 1..Len(batch) |-> Individual(batch[i])]
        merged == run.pop \o off
    IN  /\ req[w].pc = "run"
        /\ run.phase \in {"Evaluated", "Evolving"}
        /\ ~TerminationMet(run, req[w].inputs)
        /\ req' = [req EXCEPT ![w].run =
               IF Len(mating.X) = 0
               THEN [run EXCEPT !.forced = TRUE, !.rng = mating.rng]
               ELSE [run EXCEPT
                       !.phase = "Evolving",
                       !.n_gen = @ + 1,
                       !.rng = mating.rng,
                       !.cost_calls = @ + Len(batch),
                       !.off = off,
                       !.merged = merged,
                       !.pop = SurvivalDo(merged, req[w].inputs.pop_size),
                       !.problem = _log_generation_insights(run.problem, batch),
                       !.everFeasible =
                           @ \/ \E i \in 1..Len(batch) : Feasible(batch[i])]]
        /\ UNCHANGED <<env, GLOBAL_STRESS_SIGMA, optimization_cache, cacheDir,
                       modelsDir, geomOk, lastRun, np_random, stored, nreq>>

\* the termination ("n_gen", n_gen) is met: minimize returns its result
Terminate(w) ==
    LET run == req[w].run
    IN  /\ req[w].pc = "run"
        /\ run.phase \in {"Evaluated", "Evolving"}
        /\ TerminationMet(run, req[w].inputs)
        /\ req' = [req EXCEPT ![w].run = [run EXCEPT
               !.phase = "Terminated",
               !.result = ResultOf(run.pop)]]
        /\ np_random' = run.rng
        /\ UNCHANGED <<env, GLOBAL_STRESS_SIGMA, optimization_cache, cacheDir,
                       modelsDir, geomOk, lastRun, stored, nreq>>

\* lines 334-429: len(result.F) raises TypeError when result.F is None; the
\* estimator is called once per design (line 359) outside any try
Extract(w) ==
    LET run == req[w].run
        estimator_raises ==
            \E i \in 1..Len(run.result.opt) :
                CostEstimatorRaises(run.cost_calls + i, env.faults)
        ok == run.result.found /\ ~estimator_raises
    IN  /\ req[w].pc = "run"
        /\ run.phase = "Terminated"
        /\ req' = [req EXCEPT
               ![w].pc = IF ok THEN "returned" ELSE "raised",
               ![w].error = IF ~run.result.found
                            THEN <<"object of type 'NoneType' has no len()">>
                            ELSE IF estimator_raises
                            THEN <<"data/materials.json cannot be read">>
                            ELSE <<>>,
               ![w].results = IF ok
                              THEN <<PackageResults(run.result.opt, run.problem,
                                                    req[w].inputs, GLOBAL_STRESS_SIGMA)>>
                              ELSE <<>>]
        /\ UNCHANGED <<env, GLOBAL_STRESS_SIGMA, optimization_cache, cacheDir,
                       modelsDir, geomOk, lastRun, np_random, stored, nreq>>

RunStep(w) ==
    \/ Setup(w)
    \/ InitialEvaluate(w)
    \/ Evolve(w)
    \/ Terminate(w)
    \/ Extract(w)

\* ------------------------------------------- direct calls of run_optimization
\* the __main__ block of optimizer.py and any other direct caller
DirectCall(w, inputs) ==
    /\ req[w].pc = "idle"
    /\ req' = [req EXCEPT ![w] = [IdleReq EXCEPT
           !.pc = "call", !.kind = "direct", !.inputs = inputs]]
    /\ UNCHANGED <<env, GLOBAL_STRESS_SIGMA, optimization_cache, cacheDir,
                   modelsDir, geomOk, lastRun, np_random, stored, nreq>>

Outcome(r) ==
    [ok |-> r.pc = "returned", error |-> r.error,
     pareto_front |-> IF r.pc = "returned" THEN r.results[1].pareto_front ELSE <<>>]

DirectReturn(w) ==
    /\ req[w].kind = "direct"
    /\ req[w].pc \in {"returned", "raised"}
    /\ lastRun' = <<[inputs |-> req[w].inputs, outcome |-> Outcome(req[w]),
                     sigma |-> GLOBAL_STRESS_SIGMA, pop |-> req[w].run.pop]>>
    /\ req' = [req EXCEPT ![w] = IdleReq]
    /\ UNCHANGED <<env, GLOBAL_STRESS_SIGMA, optimization_cache, cacheDir,
                   modelsDir, geomOk, np_random, stored, nreq>>

InitCommon ==
    /\ GLOBAL_STRESS_SIGMA = <<>>
    /\ optimization_cache = <<>>
    /\ modelsDir = {}
    /\ geomOk = TRUE
    /\ req = [w \in Procs |-> IdleReq]
    /\ lastRun = <<>>
    /\ np_random = 0
    /\ stored = <<>>
    /\ nreq = 0

InitDirect ==
    /\ InitCommon
    /\ env \in Deployments
    /\ cacheDir = <<>>

NextDirect ==
    \/ \E inputs \in EngineInputs : DirectCall(1, inputs)
    \/ RunStep(1)
    \/ DirectReturn(1)

Spec == InitDirect /\ [][NextDirect]_vars

\* ------------------------------------- calls of the readiness score alone
\* dfm_rules.calculate_print_readiness_score called with a check result of up
\* to MaxViolations violations and MaxWarnings warnings and a print time of
\* up to MaxPrintTime (0.01 h), in quarters of an hour
DfmResults ==
    {[is_valid |-> v = 0,
      violations |-> [i \in 1..v |-> "violation"],
      warnings |-> [i \in 1..m |-> "warning"]] :
        v \in 0..MaxViolations, m \in 0..MaxWarnings}

PrintTimes == {t \in 0..MaxPrintTime : t % 25 = 0} \cup {MaxPrintTime}

\* the design of the module's own test (dfm_rules.py, lines 142-150)
GoodDesign ==
    [base_length |-> 10000, base_width |-> 6000, base_thickness |-> 600,
     rib_count |-> 3, rib_thickness |-> 500, fillet_radius |-> 400,
     hole_diameter |-> 1000]

\* one call, from the arguments to the value returned; the next call may
\* follow at once
ScoreCall(w, dfm_result, print_time_hours) ==
    /\ req[w].kind \in {"none", "score"}
    /\ req' = [req EXCEPT ![w] = [IdleReq EXCEPT
           !.pc = "returned", !.kind = "score",
           !.body = <<dfm_result, print_time_hours>>,
           !.results = <<calculate_print_readiness_score(
                            GoodDesign, dfm_result, print_time_hours)>>]]
    /\ UNCHANGED <<env, GLOBAL_STRESS_SIGMA, optimization_cache, cacheDir,
                   modelsDir, geomOk, lastRun, np_random, stored, nreq>>

NextScore ==
    \E dfm_result \in DfmResults : \E print_time_hours \in PrintTimes :
        ScoreCall(1, dfm_result, print_time_hours)

InitScore ==
    /\ InitCommon
    /\ env = HealthyEnv
    /\ cacheDir = <<>>

SpecScore == InitScore /\ [][NextScore]_vars

\* --------------------------------------------- runs under different loads
\* direct calls for one material and one size of run under 50 N, 50.00004 N
\* and 75 N
LoadInputs ==
    [load : {5000000, 5000004, 7500000}, material : {"PLA"},
     pop_size : {AppPop}, n_gen : {1, AppGen}]

NextLoads ==
    \/ \E inputs \in LoadInputs : DirectCall(1, inputs)
    \/ RunStep(1)
    \/ DirectReturn(1)

SpecLoads == InitScore /\ [][NextLoads]_vars

\* ------------------------------------------------ long runs of few designs
\* direct calls that run for up to LogGen generations with one or two designs
LongInputs ==
    [load : EngineLoads, material : {"PLA"}, pop_size : {1, 2},
     n_gen : {1, 5, 6, LogGen}]

InitLong ==
    /\ InitCommon
    /\ env = HealthyEnv
    /\ cacheDir = <<>>

NextLong ==
    \/ \E inputs \in LongInputs : DirectCall(1, inputs)
    \/ RunStep(1)
    \/ DirectReturn(1)

SpecLong == InitLong /\ [][NextLong]_vars

\* ------------------------------------------------------ app.py: run cache
\* The request bodies explored carry the four fields in some order; the load
\* is written in one of several notations.  float(): the load in 0.00001 N.
LoadTokens == {"50", "50.0", "50.00004", "50.00006"}

ParseFloat(token) ==
    IF token \in {"50", "50.0"} THEN 5000000
    ELSE IF token = "50.00004" THEN 5000004
    ELSE 5000006

\* data.get(field): the value the body gives for the field
Get(body, field) ==
    LET i == CHOOSE j \in 1..Len(body) : body[j][1] = field
    IN  body[i][2]

\* lines 163-166 of optimize: the validated inputs
ParseInputs(body) ==
    [load |-> ParseFloat(Get(body, "load")), material |-> Get(body, "material"),
     pop_size |-> Get(body, "pop_size"), n_gen |-> Get(body, "n_gen")]

\* a key computed from the load as given
RoundLoadSkipped(load) == load

\* round(load, 4), in 0.0001 N (no load explored sits on a rounding tie)
RoundLoad(load) == RoundHalfEven(load, 10)

\* json.dumps(payload, sort_keys=True): the pairs in the order of their names
SortedFieldNames == <<"load", "material", "n_gen", "pop_size">>

JsonDumpsSorted(payload) ==
    [k \in 1..Len(SortedFieldNames) |->
        LET i == CHOOSE j \in 1..Len(payload) : payload[j][1] = SortedFieldNames[k]
        IN  payload[i]]

\* a key that leaves the load out
_compute_request_hash_without_load(load, material, pop_size, n_gen) ==
    JsonDumpsSorted(<< <<"load", 0>>, <<"material", material>>,
                       <<"pop_size", pop_size>>, <<"n_gen", n_gen>> >>)

\* _compute_request_hash; SHA-1 is taken as injective on the serialization
_compute_request_hash(load, material, pop_size, n_gen) ==
    JsonDumpsSorted(<< <<"load", RoundLoad(load)>>, <<"material", material>>,
                       <<"pop_size", pop_size>>, <<"n_gen", n_gen>> >>)

\* repr() of a time.time() value <<seconds, fraction in 1e-7 s>> prints the
\* fraction without its trailing zeros: the number of digits printed
RECURSIVE FractionDigits(_, _)
FractionDigits(fraction, places) ==
    IF places = 0 \/ fraction % 10 # 0 THEN places
    ELSE FractionDigits(fraction \div 10, places - 1)

\* the length of the text json.dump writes for a cache payload, up to the
\* part that is the same for every payload of one key: stl_file is null or a
\* quoted name, cached_at is printed by repr()
StlFieldLen(design) == IF design.stl_file = <<>> THEN 4 ELSE 40

RECURSIVE StlFieldsLen(_)
StlFieldsLen(front) ==
    IF front = <<>> THEN 0 ELSE StlFieldLen(Head(front)) + StlFieldsLen(Tail(front))

TextSize(doc) ==
    StlFieldsLen(doc.results.pareto_front) + FractionDigits(doc.cached_at[2], 7)

\* a cache file: complete JSON text of a document, or a text json.load
\* rejects; size is the length of the file
JsonDump(doc) == [complete |-> TRUE, doc |-> <<doc>>, size |-> TextSize(doc)]
TruncatedFile == [complete |-> FALSE, doc |-> <<>>, size |-> 0]

\* json.dump into a file opened with 'w', then close: the text is written
\* from offset 0; the bytes another writer put beyond its end since the
\* file was opened stay, and the file is no JSON document
WriteText(onDisk, doc) ==
    IF onDisk.size > TextSize(doc)
    THEN [complete |-> FALSE, doc |-> <<>>, size |-> onDisk.size]
    ELSE JsonDump(doc)

\* a loader that takes whatever a damaged file holds for an empty result
_load_cached_results_lenient(file) ==
    IF file.complete THEN <<file.doc[1].results>>
    ELSE <<[pareto_front |-> <<>>, n_generations |-> 0, n_evaluations |-> 0,
            mentor_log |-> <<>>,
            mentor_summary |-> [total_designs |-> 0, n_gen |-> 0, n_pareto |-> 0,
                                mass_lo |-> 0, mass_hi |-> 0, cost_lo |-> 0,
                                cost_hi |-> 0],
            stress_sigma |-> <<>>]>>

\* a loader that never returns a record
_load_cached_results_never(file) == <<>>

\* _load_cached_results: the stored results, or None (<<>>) when json.load raises
_load_cached_results(file) ==
    IF file.complete THEN <<file.doc[1].results>> ELSE <<>>

\* generate_bracket_stl: the file name is a hash of the parameters
StlName(params) == <<"bracket", params>>

\* the basename of the generated file, or None when the generator raises
generate_bracket_stl(params, ok) == IF ok THEN <<StlName(params)>> ELSE <<>>

\* a reconciliation that trusts the record and never calls the generator
EnsureOneTrusting(design, models, ok) == [design |-> design, invoked |-> FALSE]

\* one pass of the loop body of _ensure_design_assets (lines 69-88)
EnsureOne(design, models, ok) ==
    LET missing == IF design.stl_file = <<>> THEN TRUE
                   ELSE design.stl_file[1] \notin models
    IN  [design |-> IF missing
                    THEN [design EXCEPT !.stl_file = generate_bracket_stl(design.parameters, ok)]
                    ELSE design,
         invoked |-> missing]

\* _ensure_design_assets over front[i..]: the designs as answered, the ids the
\* generator was invoked for, the files on disk afterwards
RECURSIVE _ensure_design_assets(_, _, _, _)
_ensure_design_assets(front, i, models, ok) ==
    IF i > Len(front) THEN [designs |-> <<>>, regen |-> <<>>, models |-> models]
    ELSE LET one == EnsureOne(front[i], models, ok)
             after == IF one.invoked /\ one.design.stl_file # <<>>
                      THEN models \cup {one.design.stl_file[1]} ELSE models
             rest == _ensure_design_assets(front, i + 1, after, ok)
         IN  [designs |-> <<one.design>> \o rest.designs,
              regen |-> (IF one.invoked THEN <<front[i].id>> ELSE <<>>) \o rest.regen,
              models |-> rest.models]

\* optimization_cache[str(design['id'])] = design for each design, in order
RECURSIVE IndexPut(_, _)
IndexPut(cache, designs) ==
    IF designs = <<>> THEN cache
    ELSE LET d == Head(designs)
             others == [id \in DOMAIN cache \ {d.id} |-> cache[id]]
         IN  IndexPut((d.id :> d) @@ others, Tail(designs))

\* the search of data/demo_results.json for the id (lines 108-115); the
\* front of the file is <<>> when the file does not exist
RECURSIVE DemoLookup(_, _)
DemoLookup(demo_front, design_id) ==
    IF demo_front = <<>> THEN <<>>
    ELSE IF Head(demo_front).id = design_id THEN <<Head(demo_front)>>
    ELSE DemoLookup(Tail(demo_front), design_id)

\* a lookup that goes to the demo file without consulting the index
get_design_by_id_demo_only(index, demo_front, design_id) ==
    DemoLookup(demo_front, design_id)

\* get_design_by_id: the entry of the index, else the design of the demo
\* file, else None (<<>>)
get_design_by_id(index, demo_front, design_id) ==
    IF design_id \in DOMAIN index THEN <<index[design_id]>>
    ELSE DemoLookup(demo_front, design_id)

\* lines 198-212: the STL loop after a run
GenerateAll(front, ok) ==
    [i \in 1..Len(front) |->
        [front[i] EXCEPT !.stl_file = generate_bracket_stl(front[i].parameters, ok)]]

AtRest(w) == req[w].pc \in {"idle", "done"}

\* a lookup that finds no cache file whatever the directory holds
CachePathExistsNever(dir, key) == FALSE

\* cache_path.exists() for the file of the key
CachePathExists(dir, key) == key \in DOMAIN dir

\* optimize, lines 160-173: parse the body, compute the cache key
Receive(w, body) ==
    LET inputs == ParseInputs(body)
        key == _compute_request_hash(inputs.load, inputs.material,
                                  inputs.pop_size, inputs.n_gen)
    IN  /\ AtRest(w)
        /\ nreq < MaxRequests
        /\ nreq' = nreq + 1
        /\ req' = [req EXCEPT ![w] = [IdleReq EXCEPT
               !.pc = "lookup", !.kind = "app", !.body = body, !.inputs = inputs,
               !.cache_key = <<key>>,
               !.before = <<[cacheDir |-> cacheDir, index |-> optimization_cache]>>,
               !.later = IF key \in DOMAIN stored
                         THEN stored[key].inputs = inputs ELSE FALSE]]
        /\ UNCHANGED <<env, GLOBAL_STRESS_SIGMA, optimization_cache, cacheDir,
                       modelsDir, geomOk, lastRun, np_random, stored>>

\* optimize, lines 175-187: the cache lookup; on a hit the stored results are
\* reconciled with the STL files and answered, otherwise the run is started
CacheLookup(w) ==
    LET key == req[w].cache_key[1]
        exists == CachePathExists(cacheDir, key)
        cached_results == IF exists THEN _load_cached_results(cacheDir[key]) ELSE <<>>
        seen == [file |-> IF exists THEN <<cacheDir[key]>> ELSE <<>>,
                 models |-> modelsDir, geomOk |-> geomOk]
        ens == _ensure_design_assets(cached_results[1].pareto_front, 1, modelsDir, geomOk)
    IN  /\ req[w].pc = "lookup"
        /\ IF cached_results # <<>>
           THEN /\ modelsDir' = ens.models
                /\ optimization_cache' = IndexPut(optimization_cache, ens.designs)
                /\ req' = [req EXCEPT
                       ![w].pc = "done", ![w].hit = TRUE, ![w].seen = <<seen>>,
                       ![w].regen = ens.regen,
                       ![w].response =
                           <<[success |-> TRUE,
                              results |-> <<[cached_results[1] EXCEPT
                                               !.pareto_front = ens.designs]>>,
                              cached |-> <<TRUE>>, cache_key |-> <<key>>,
                              error |-> <<>>]>>]
           ELSE /\ req' = [req EXCEPT ![w].pc = "call", ![w].seen = <<seen>>]
                /\ UNCHANGED <<modelsDir, optimization_cache>>
        /\ UNCHANGED <<env, GLOBAL_STRESS_SIGMA, cacheDir, geomOk, lastRun,
                       np_random, stored, nreq>>

\* time.time() at line 226, as <<seconds, fraction in 1e-7 s>>: the requests
\* received so far count the seconds; requests served one after the other
\* read the clock at one instant each
Instants(n) == {<<n, 5000000>>}

\* what becomes of the cache file when the record is written (lines 228-234):
\* written whole, left partial by a write that raised, or never opened
PersistOutcomes == {"written", "partial", "unopened"}

\* optimize, lines 198-241: STL generation for the new front, the cache
\* record, the answer
AfterRun(w, outcome, now) ==
    LET key == req[w].cache_key[1]
        results == req[w].results[1]
        front == GenerateAll(results.pareto_front, geomOk)
        answered == [results EXCEPT !.pareto_front = front]
        cache_payload == [inputs |-> req[w].inputs, results |-> answered,
                          cached_at |-> now]
    IN  /\ req[w].kind = "app"
        /\ req[w].pc = "returned"
        /\ modelsDir' = IF geomOk
                        THEN modelsDir \cup {front[i].stl_file[1] : i \in 1..Len(front)}
                        ELSE modelsDir
        /\ optimization_cache' = IF geomOk THEN IndexPut(optimization_cache, front)
                                 ELSE optimization_cache
        /\ cacheDir' =
              IF outcome = "unopened" THEN cacheDir
              ELSE LET file == IF outcome = "written"
                               THEN WriteText(TruncatedFile, cache_payload)
                               ELSE TruncatedFile
                   IN  (key :> file) @@ [k \in DOMAIN cacheDir \ {key} |-> cacheDir[k]]
        /\ stored' =
              IF outcome = "written"
              THEN (key :> [body |-> req[w].body, inputs |-> req[w].inputs,
                            pareto_front |-> front])
                     @@ [k \in DOMAIN stored \ {key} |-> stored[k]]
              ELSE stored
        /\ req' = [req EXCEPT
               ![w].pc = "done",
               ![w].response =
                   <<[success |-> TRUE, results |-> <<answered>>,
                      cached |-> <<FALSE>>, cache_key |-> <<key>>, error |-> <<>>]>>]
        /\ UNCHANGED <<env, GLOBAL_STRESS_SIGMA, geomOk, lastRun, np_random, nreq>>

\* an error answer that also empties the index
ErrorResponseClearing(w) ==
    /\ req[w].kind = "app"
    /\ req[w].pc = "raised"
    /\ optimization_cache' = << >>
    /\ req' = [req EXCEPT
           ![w].pc = "done",
           ![w].response =
               <<[success |-> FALSE, results |-> <<>>, cached |-> <<>>,
                  cache_key |-> <<>>, error |-> req[w].error]>>]
    /\ UNCHANGED <<env, GLOBAL_STRESS_SIGMA, cacheDir,
                   modelsDir, geomOk, lastRun, np_random, stored, nreq>>

\* optimize, lines 243-248: any exception becomes an error answer
ErrorResponse(w) ==
    /\ req[w].kind = "app"
    /\ req[w].pc = "raised"
    /\ req' = [req EXCEPT
           ![w].pc = "done",
           ![w].response =
               <<[success |-> FALSE, results |-> <<>>, cached |-> <<>>,
                  cache_key |-> <<>>, error |-> req[w].error]>>]
    /\ UNCHANGED <<env, GLOBAL_STRESS_SIGMA, optimization_cache, cacheDir,
                   modelsDir, geomOk, lastRun, np_random, stored, nreq>>

\* ------------------------------------------------ the files between requests
\* A change of the files during a request is seen by the request as a change
\* before or after it, so the files change while the workers are at rest.
Quiet == (\A w \in Procs : AtRest(w)) /\ nreq < MaxRequests

\* a cache file is damaged
CorruptCache(key) ==
    /\ Quiet
    /\ key \in DOMAIN cacheDir
    /\ cacheDir[key].complete
    /\ cacheDir' = [cacheDir EXCEPT ![key] = TruncatedFile]
    /\ UNCHANGED <<env, GLOBAL_STRESS_SIGMA, optimization_cache, modelsDir,
                   geomOk, req, lastRun, np_random, stored, nreq>>

\* an STL file is removed from data/models
DeleteStl(file) ==
    /\ Quiet
    /\ file \in modelsDir
    /\ modelsDir' = modelsDir \ {file}
    /\ UNCHANGED <<env, GLOBAL_STRESS_SIGMA, optimization_cache, cacheDir,
                   geomOk, req, lastRun, np_random, stored, nreq>>

\* the geometry generator starts or stops failing
GeometryFlips ==
    /\ Quiet
    /\ geomOk' = ~geomOk
    /\ UNCHANGED <<env, GLOBAL_STRESS_SIGMA, optimization_cache, cacheDir,
                   modelsDir, req, lastRun, np_random, stored, nreq>>

\* the bodies explored: field order, load notation, material
FieldsInOrder(load, material) ==
    << <<"load", load>>, <<"material", material>>,
       <<"pop_size", AppPop>>, <<"n_gen", AppGen>> >>

FieldsReversed(load, material) ==
    << <<"n_gen", AppGen>>, <<"pop_size", AppPop>>,
       <<"material", material>>, <<"load", load>> >>

AppBodies ==
    {FieldsInOrder("50", "PLA"), FieldsReversed("50.0", "PLA"),
     FieldsReversed("50.00004", "PLA"), FieldsInOrder("50.00006", "PLA"),
     FieldsInOrder("50", "Unobtainium")}

AppWorkers == {1}

\* the server starts with an empty data/cache and the reference dataset in
\* place
InitApp ==
    /\ InitCommon
    /\ env = HealthyEnv
    /\ cacheDir = <<>>

NextApp ==
    \/ \E w \in AppWorkers : \E body \in AppBodies : Receive(w, body)
    \/ \E w \in AppWorkers : CacheLookup(w)
    \/ \E w \in AppWorkers : RunStep(w)
    \/ \E w \in AppWorkers : \E outcome \in PersistOutcomes :
          \E now \in Instants(nreq) : AfterRun(w, outcome, now)
    \/ \E w \in AppWorkers : ErrorResponse(w)
    \/ \E key \in DOMAIN cacheDir : CorruptCache(key)
    \/ \E file \in modelsDir : DeleteStl(file)
    \/ GeometryFlips

SpecApp == InitApp /\ [][NextApp]_vars

\* ------------------------------------------------- requests whose run raises
\* Requests for PLA, for a material the table does not hold and for a material
\* no design is feasible with, in a deployment that may lose its ensemble
\* files or the readability of its materials file between requests.
FailBodies ==
    {FieldsInOrder("50", "PLA"), FieldsInOrder("50", "Unobtainium"),
     FieldsInOrder("50", "LowYield")}

\* the ensemble files are removed
ArtifactsRemoved ==
    /\ Quiet
    /\ env.artifacts
    /\ env' = [env EXCEPT !.artifacts = FALSE]
    /\ UNCHANGED <<GLOBAL_STRESS_SIGMA, optimization_cache, cacheDir, modelsDir,
                   geomOk, req, lastRun, np_random, stored, nreq>>

\* the materials file becomes unreadable for the first call the estimator
\* gets after the evaluations of a run
MaterialsFileBreaks ==
    /\ Quiet
    /\ env.faults = {}
    /\ env' = [env EXCEPT !.faults = {AppPop * AppGen + 1}]
    /\ UNCHANGED <<GLOBAL_STRESS_SIGMA, optimization_cache, cacheDir, modelsDir,
                   geomOk, req, lastRun, np_random, stored, nreq>>

NextFail ==
    \/ \E w \in AppWorkers : \E body \in FailBodies : Receive(w, body)
    \/ \E w \in AppWorkers : CacheLookup(w)
    \/ \E w \in AppWorkers : RunStep(w)
    \/ \E w \in AppWorkers : \E now \in Instants(nreq) : AfterRun(w, "written", now)
    \/ \E w \in AppWorkers : ErrorResponse(w)
    \/ \E key \in DOMAIN cacheDir : CorruptCache(key)
    \/ ArtifactsRemoved
    \/ MaterialsFileBreaks

SpecFail == InitApp /\ [][NextFail]_vars

\* --------------------------------------- requests with fronts of two sizes
\* Requests for a large and for a small run, served one after the other, with
\* a geometry generator that may fail, STL files that may be removed and no
\* demo file on disk.
BodyOf(load, material, pop_size, n_gen) ==
    << <<"load", load>>, <<"material", material>>,
       <<"pop_size", pop_size>>, <<"n_gen", n_gen>> >>

IndexBodies == {BodyOf("50", "PLA", MaxPop, MaxGen), BodyOf("50", "PLA", AppPop, AppGen)}

DemoFront == <<>>

NextIndex ==
    \/ \E w \in AppWorkers : \E body \in IndexBodies : Receive(w, body)
    \/ \E w \in AppWorkers : CacheLookup(w)
    \/ \E w \in AppWorkers : RunStep(w)
    \/ \E w \in AppWorkers : \E now \in Instants(nreq) : AfterRun(w, "written", now)
    \/ \E file \in modelsDir : DeleteStl(file)
    \/ GeometryFlips

SpecIndex == InitApp /\ [][NextIndex]_vars

\* ------------------------------------------- two requests served at once
\* The development server serves each request on a thread of its own
\* (app.run, line 608), so the steps of two calls of optimize interleave:
\* the STL loop, the opening of the cache file and the writing of its text
\* are steps of their own.

\* lines 198-212: the STL loop; the designs are changed in place and indexed
StlLoop(w) ==
    LET results == req[w].results[1]
        front == GenerateAll(results.pareto_front, geomOk)
    IN  /\ req[w].kind = "app"
        /\ req[w].pc = "returned"
        /\ modelsDir' = IF geomOk
                        THEN modelsDir \cup {front[i].stl_file[1] : i \in 1..Len(front)}
                        ELSE modelsDir
        /\ optimization_cache' = IF geomOk THEN IndexPut(optimization_cache, front)
                                 ELSE optimization_cache
        /\ req' = [req EXCEPT ![w].pc = "generated",
                              ![w].results = <<[results EXCEPT !.pareto_front = front]>>]
        /\ UNCHANGED <<env, GLOBAL_STRESS_SIGMA, cacheDir, geomOk, lastRun,
                       np_random, stored, nreq>>

\* lines 218-229: the payload is built, open(cache_path, 'w') empties the file
OpenCache(w, now) ==
    LET key == req[w].cache_key[1]
        cache_payload == [inputs |-> req[w].inputs, results |-> req[w].results[1],
                          cached_at |-> now]
    IN  /\ req[w].pc = "generated"
        /\ cacheDir' = (key :> TruncatedFile)
                          @@ [k \in DOMAIN cacheDir \ {key} |-> cacheDir[k]]
        /\ req' = [req EXCEPT ![w].pc = "opened", ![w].payload = <<cache_payload>>]
        /\ UNCHANGED <<env, GLOBAL_STRESS_SIGMA, optimization_cache, modelsDir,
                       geomOk, lastRun, np_random, stored, nreq>>

\* lines 230-241: json.dump, the file is closed, the answer
WriteCache(w) ==
    LET key == req[w].cache_key[1]
        file == WriteText(cacheDir[key], req[w].payload[1])
    IN  /\ req[w].pc = "opened"
        /\ cacheDir' = [cacheDir EXCEPT ![key] = file]
        /\ stored' =
              IF file.complete
              THEN (key :> [body |-> req[w].body, inputs |-> req[w].inputs,
                            pareto_front |-> req[w].results[1].pareto_front])
                     @@ [k \in DOMAIN stored \ {key} |-> stored[k]]
              ELSE stored
        /\ req' = [req EXCEPT
               ![w].pc = "done",
               ![w].response =
                   <<[success |-> TRUE, results |-> req[w].results,
                      cached |-> <<FALSE>>, cache_key |-> <<key>>, error |-> <<>>]>>]
        /\ UNCHANGED <<env, GLOBAL_STRESS_SIGMA, optimization_cache, modelsDir,
                       geomOk, lastRun, np_random, nreq>>

\* the same request in two spellings
RaceBodies == {FieldsInOrder("50", "PLA"), FieldsReversed("50.0", "PLA")}

\* two threads read the clock at different instants of the same second
RaceInstants(n) == {<<n, 5000000>>, <<n, 7431154>>}

NextRace ==
    \/ \E w \in Procs : \E body \in RaceBodies : Receive(w, body)
    \/ \E w \in Procs : CacheLookup(w)
    \/ \E w \in Procs : RunStep(w)
    \/ \E w \in Procs : StlLoop(w)
    \/ \E w \in Procs : \E now \in RaceInstants(nreq) : OpenCache(w, now)
    \/ \E w \in Procs : WriteCache(w)

SpecRace == InitApp /\ [][NextRace]_vars

\* ---------------------------------------------------------------- claims
\* the workers whose call of run_optimization has returned its payload
Returned(w) == req[w].pc = "returned" /\ req[w].run.phase = "Terminated"

\* the engine individual behind an entry of a returned front
Behind(w, entry) == req[w].run.result.opt[entry.id + 1]

\* C1: in the front run_optimization returns, no entry dominates another
\* under the constrained-dominance rule (a smaller constraint violation wins;
\* between feasible designs, Pareto dominance on (mass, cost)).
C1_FrontIsNonDominated ==
    \A w \in Procs :
        Returned(w) =>
            LET front == req[w].results[1].pareto_front
            IN  /\ Len(front) = Len(req[w].run.result.opt)
                /\ \A i, j \in 1..Len(front) :
                      ~ConstrainedDominates(Behind(w, front[j]), Behind(w, front[i]))

\* a front was returned while the final population held a feasible design
\* that a member of the front dominates
C1_Witness ==
    \E w \in Procs :
        /\ Returned(w)
        /\ \E i \in 1..Len(req[w].run.pop) :
              /\ Feasible(req[w].run.pop[i])
              /\ \E j \in 1..Len(req[w].run.result.opt) :
                    ParetoDominates(req[w].run.result.opt[j].F, req[w].run.pop[i].F)

\* C2: when the final merged population holds a feasible design, the result
\* exists and no design of the returned front violates a constraint.
C2_NoInfeasibleInFront ==
    \A w \in Procs :
        /\ req[w].run.phase = "Terminated"
        /\ \E i \in 1..Len(req[w].run.merged) : Feasible(req[w].run.merged[i])
        => /\ req[w].run.result.found
           /\ Len(req[w].run.result.opt) >= 1
           /\ \A k \in 1..Len(req[w].run.result.opt) :
                 Feasible(req[w].run.result.opt[k])
           /\ Returned(w) =>
                 \A k \in 1..Len(req[w].results[1].pareto_front) :
                    Feasible(Behind(w, req[w].results[1].pareto_front[k]))

\* a front was returned from a final population that still held an
\* infeasible design beside a feasible one
C2_Witness ==
    \E w \in Procs :
        /\ Returned(w)
        /\ \E i \in 1..Len(req[w].run.pop) : Feasible(req[w].run.pop[i])
        /\ \E i \in 1..Len(req[w].run.pop) : ~Feasible(req[w].run.pop[i])

\* C3: a run in which no generation held a feasible design still returns a
\* non-empty front.
C3_FrontWhenNothingFeasible ==
    \A w \in Procs :
        /\ req[w].pc \in {"returned", "raised"}
        /\ req[w].run.phase = "Terminated"
        /\ ~req[w].run.everFeasible
        => /\ req[w].pc = "returned"
           /\ Len(req[w].results[1].pareto_front) >= 1

\* C4: every design evaluated in any generation, and so every member of the
\* population, lies within [xl, xu] on each of the seven variables.
C4_VariablesWithinBounds ==
    \A w \in Procs :
        /\ \A i \in 1..Len(req[w].run.off) : InBounds(req[w].run.off[i].X)
        /\ \A i \in 1..Len(req[w].run.merged) : InBounds(req[w].run.merged[i].X)
        /\ \A i \in 1..Len(req[w].run.pop) : InBounds(req[w].run.pop[i].X)

\* an offspring evaluated in a later generation sits on a bound
C4_Witness ==
    \E w \in Procs :
        /\ req[w].run.phase = "Evolving"
        /\ \E i \in 1..Len(req[w].run.off) : \E v \in 1..NVar :
              req[w].run.off[i].X[v] \in {xl[v], xu[v]}

\* C5: a call of run_optimization with the arguments of the previous call
\* ends as the previous call did: the same front, or the same error.
C5_SameInputsSameFront ==
    \A w \in Procs :
        /\ req[w].kind = "direct"
        /\ req[w].pc \in {"returned", "raised"}
        /\ lastRun # <<>>
        /\ lastRun[1].inputs = req[w].inputs
        => Outcome(req[w]) = lastRun[1].outcome

\* a second call with the arguments of the first has returned a front
C5_Witness ==
    \E w \in Procs :
        /\ req[w].kind = "direct"
        /\ Returned(w)
        /\ lastRun # <<>>
        /\ lastRun[1].inputs = req[w].inputs
        /\ req[w].inputs.n_gen >= 2
        /\ Len(lastRun[1].outcome.pareto_front) >= 1

PhaseSteps ==
    {<<"None", "Initialized">>, <<"Initialized", "Evaluated">>,
     <<"Evaluated", "Evolving">>, <<"Evolving", "Evolving">>,
     <<"Evaluated", "Terminated">>, <<"Evolving", "Terminated">>,
     <<"Terminated", "None">>}

\* C6: a run moves Initialized, Evaluated, Evolving (repeatedly), Terminated;
\* each Evaluated or Evolving step is one more generation and one more batch
\* evaluation, and the run terminates after exactly n_gen of them.
C6_PhasesAndGenerations ==
    [][\A w \in Procs :
         LET run == req[w].run
             next == req'[w].run
         IN  next # run =>
               /\ <<run.phase, next.phase>> \in PhaseSteps
               /\ next.phase \in {"Evaluated", "Evolving"} =>
                     /\ next.n_gen = run.n_gen + 1
                     /\ next.problem.current_generation = next.n_gen
                     /\ next.n_gen <= req[w].inputs.n_gen
               /\ next.phase = "Terminated" =>
                     /\ next.n_gen = req[w].inputs.n_gen
                     /\ next.problem.current_generation = req[w].inputs.n_gen
                     /\ Len(next.problem.best_mass_history) = req[w].inputs.n_gen]_vars

\* a run of the largest number of generations has terminated
C6_Witness ==
    \E w \in Procs :
        /\ req[w].run.phase = "Terminated"
        /\ req[w].inputs.n_gen = MaxGen
        /\ req[w].run.problem.current_generation = MaxGen

\* the optimize requests that have been answered
Answered(w) == req[w].kind = "app" /\ req[w].pc = "done"

\* the lookup of the request found a cache file, and the file was whole
SawReadableRecord(w) ==
    /\ req[w].seen # <<>>
    /\ req[w].seen[1].file # <<>>
    /\ req[w].seen[1].file[1].complete

\* the lookup of the request found a cache file that cannot be parsed
SawCorruptRecord(w) ==
    /\ req[w].seen # <<>>
    /\ req[w].seen[1].file # <<>>
    /\ ~req[w].seen[1].file[1].complete

WithoutStl(design) == [design EXCEPT !.stl_file = <<>>]

\* C7 as stated: once a request has stored its cache record, every later
\* request with the same inputs is answered as a cache hit, without a run,
\* with the pareto_front of the response that stored the record.
C7_LaterRequestIdentical ==
    \A w \in Procs :
        Answered(w) /\ req[w].later =>
            /\ req[w].response[1].success
            /\ req[w].response[1].cached = <<TRUE>>
            /\ req[w].runCalls = 0
            /\ req[w].response[1].results[1].pareto_front
                  = stored[req[w].cache_key[1]].pareto_front

\* C7 amended: a later request with the same inputs that finds the record
\* readable is answered as a cache hit, without a run, with the stored front;
\* only the stl_file of a design whose STL file was absent may differ from
\* the response that stored the record.
C7_LaterRequestHitsReadableRecord ==
    \A w \in Procs :
        Answered(w) /\ req[w].later /\ SawReadableRecord(w) =>
            LET first == stored[req[w].cache_key[1]].pareto_front
                now == req[w].response[1].results[1].pareto_front
            IN  /\ req[w].response[1].success
                /\ req[w].response[1].cached = <<TRUE>>
                /\ req[w].runCalls = 0
                /\ Len(now) = Len(first)
                /\ \A i \in 1..Len(first) :
                      /\ WithoutStl(now[i]) = WithoutStl(first[i])
                      /\ (IF first[i].stl_file = <<>> THEN FALSE
                          ELSE first[i].stl_file[1] \in req[w].seen[1].models)
                            => now[i] = first[i]

\* a later request with the same inputs was answered from the record
C7_Witness ==
    \E w \in Procs :
        /\ Answered(w) /\ req[w].later /\ SawReadableRecord(w)
        /\ req[w].hit
        /\ Len(req[w].response[1].results[1].pareto_front) >= 1

\* C8: a request gets the key of every stored record whose material, pop_size
\* and n_gen equal its own and whose load equals its own after rounding to 4
\* decimals, whatever the order of the fields and the notation of the load in
\* the two request bodies.
C8_KeyInvariance ==
    \A w \in Procs :
        req[w].kind = "app" /\ req[w].cache_key # <<>> =>
            \A key \in DOMAIN stored :
                /\ stored[key].inputs.material = req[w].inputs.material
                /\ stored[key].inputs.pop_size = req[w].inputs.pop_size
                /\ stored[key].inputs.n_gen = req[w].inputs.n_gen
                /\ RoundHalfEven(stored[key].inputs.load, 10)
                      = RoundHalfEven(req[w].inputs.load, 10)
                => req[w].cache_key[1] = key

\* a request got the key of a record stored for a body with another field
\* order and another load within the same rounding
C8_Witness ==
    \E w \in Procs :
        /\ req[w].kind = "app" /\ req[w].cache_key # <<>>
        /\ req[w].cache_key[1] \in DOMAIN stored
        /\ stored[req[w].cache_key[1]].inputs.load # req[w].inputs.load
        /\ stored[req[w].cache_key[1]].body[1][1] # req[w].body[1][1]

\* C9: a request whose cache file exists but cannot be parsed is answered as
\* a miss: the optimization is run, the answer is a success with cached =
\* false.
C9_CorruptRecordIsAMiss ==
    \A w \in Procs :
        /\ req[w].kind = "app" /\ SawCorruptRecord(w) => req[w].pc # "raised"
        /\ Answered(w) /\ SawCorruptRecord(w) =>
              /\ ~req[w].hit
              /\ req[w].runCalls = 1
              /\ req[w].response[1].success
              /\ req[w].response[1].cached = <<FALSE>>
              /\ Len(req[w].response[1].results[1].pareto_front) >= 1

\* a request that found a damaged cache file has been answered
C9_Witness ==
    \E w \in Procs :
        /\ Answered(w) /\ SawCorruptRecord(w)
        /\ req[w].response[1].cached = <<FALSE>>

\* C10: on a cache hit, for every design of the record whose STL file is
\* absent (or that names none) the generator is invoked, the answer names the
\* generated file, or None when the generator failed, and the answer is a
\* cache hit.
C10_MissingStlRegeneratedOnHit ==
    \A w \in Procs :
        Answered(w) /\ req[w].hit =>
            LET seen == req[w].seen[1]
                record == seen.file[1].doc[1].results.pareto_front
                now == req[w].response[1].results[1].pareto_front
            IN  /\ req[w].response[1].success
                /\ req[w].response[1].cached = <<TRUE>>
                /\ req[w].runCalls = 0
                /\ Len(now) = Len(record)
                /\ \A i \in 1..Len(record) :
                      (IF record[i].stl_file = <<>> THEN TRUE
                       ELSE record[i].stl_file[1] \notin seen.models)
                      => /\ \E j \in 1..Len(req[w].regen) :
                               req[w].regen[j] = record[i].id
                         /\ now[i].stl_file =
                               IF seen.geomOk THEN <<StlName(record[i].parameters)>>
                               ELSE <<>>

\* a cache hit regenerated a missing STL file and names it in the answer
C10_Witness ==
    \E w \in Procs :
        /\ Answered(w) /\ req[w].hit
        /\ req[w].regen # <<>>
        /\ req[w].seen[1].geomOk
        /\ \E i \in 1..Len(req[w].response[1].results[1].pareto_front) :
              req[w].response[1].results[1].pareto_front[i].stl_file # <<>>

\* C11: a step of a request never changes a cache file that is readable: the
\* record is written on a miss and only read on a hit, also by a hit that
\* regenerates STL files.
C11_ReadableRecordNeverRewritten ==
    [][req' # req =>
         \A key \in DOMAIN cacheDir :
             cacheDir[key].complete =>
                 /\ key \in DOMAIN cacheDir'
                 /\ cacheDir'[key] = cacheDir[key]]_vars

\* a hit that regenerated an STL file has been answered and the record is
\* the one the lookup read
C11_Witness ==
    \E w \in Procs :
        /\ Answered(w) /\ req[w].hit
        /\ req[w].regen # <<>>
        /\ req[w].cache_key[1] \in DOMAIN cacheDir
        /\ cacheDir[req[w].cache_key[1]] = req[w].seen[1].file[1]

\* C12: a request for a material the library does not hold never starts a
\* run: run_optimization raises the ValueError whose text names the material
\* before any batch is evaluated, and the request is answered success = false
\* with that text.
C12_UnknownMaterialFailsFast ==
    \A w \in Procs :
        req[w].kind = "app" /\ ~MaterialKnown(req[w].inputs.material) =>
            /\ req[w].pc \notin {"run", "returned"}
            /\ req[w].run.phase = "None"
            /\ req[w].run.n_gen = 0
            /\ req[w].run.problem.current_generation = 0
            /\ req[w].pc = "raised" =>
                  /\ Len(req[w].error) = 3
                  /\ req[w].error[2] = req[w].inputs.material
            /\ Answered(w) =>
                  /\ ~req[w].hit
                  /\ req[w].runCalls = 1
                  /\ ~req[w].response[1].success
                  /\ Len(req[w].response[1].error) = 3
                  /\ req[w].response[1].error[2] = req[w].inputs.material

\* a request for an unknown material has been answered
C12_Witness ==
    \E w \in Procs :
        /\ Answered(w)
        /\ ~MaterialKnown(req[w].inputs.material)
        /\ ~req[w].response[1].success

\* C13: a returned front has at most pop_size entries, the masses of its
\* entries do not decrease along the list, and its ids are pairwise distinct
\* and are exactly 0..n-1 for a front of n entries.
C13_FrontSizeOrderAndIds ==
    \A w \in Procs :
        Returned(w) =>
            LET front == req[w].results[1].pareto_front
                n == Len(front)
            IN  /\ n <= req[w].inputs.pop_size
                /\ \A k \in 1..(n - 1) : front[k].mass <= front[k + 1].mass
                /\ \A i, j \in 1..n : front[i].id = front[j].id => i = j
                /\ {front[k].id : k \in 1..n} = 0..(n - 1)

\* a front of several entries of different mass has been returned
C13_Witness ==
    \E w \in Procs :
        /\ Returned(w)
        /\ Len(req[w].results[1].pareto_front) >= 2
        /\ req[w].results[1].pareto_front[1].mass
              < req[w].results[1].pareto_front[2].mass

\* C14: in a returned front the entry at position k of the list (sorted
\* ascending by mass, positions counted from 0) has id k.
C14_IdsFollowMassOrder ==
    \A w \in Procs :
        Returned(w) =>
            \A k \in 1..Len(req[w].results[1].pareto_front) :
                req[w].results[1].pareto_front[k].id = k - 1

\* C15: in every evaluated batch, an individual whose estimator call raised
\* has the fallback cost (mass x cost_per_kg / 1000 + 10 rupees), every other
\* individual has the estimator's total cost, the batch has one objective row
\* and one constraint row per design, and the run is not aborted by it.
C15_EstimatorFailureFallsBack ==
    \A w \in Procs :
        LET run == req[w].run
            n == Len(run.off)
            material == MaterialTable[req[w].inputs.material]
        IN  run.phase \in {"Evaluated", "Evolving", "Terminated"} =>
              /\ n >= 1
              /\ run.cost_calls >= n
              /\ req[w].pc = "raised" => run.phase = "Terminated"
              /\ \A i \in 1..n :
                    LET e == run.off[i]
                        params == EvalParams(e.X)
                    IN  /\ Len(e.F) = 2 /\ Len(e.G) = 3
                        /\ e.F[1] = (BaseVolume(params)
                                       + RibVolumeEach(params) * params.rib_count)
                                      * material.density
                        /\ e.G[3] \in {0, 1}
                        /\ IF (run.cost_calls - n + i) \in env.faults
                           THEN 10000 * (e.F[2] - 1000)
                                   <= (e.F[1] \div 1000) * material.cost_per_kg
                                /\ (e.F[1] \div 1000) * material.cost_per_kg
                                   < 10000 * (e.F[2] - 1000 + 1)
                           ELSE e.F[2] = calculate_manufacturing_cost(
                                            params, req[w].inputs.material).total_cost

\* a batch of several designs was evaluated in which the estimator raised
\* for one design, and the run went on to a further generation
C15_Witness ==
    \E w \in Procs :
        LET run == req[w].run
        IN  /\ run.phase = "Evolving"
            /\ env.faults # {}
            /\ Len(run.merged) >= 2
            /\ \E i \in 1..Len(run.merged) :
                  /\ run.merged[i].F[2] = FallbackCost(run.merged[i].F[1],
                                              MaterialTable[req[w].inputs.material])
                  /\ run.merged[i].F[2] # calculate_manufacturing_cost(
                                              EvalParams(run.merged[i].X),
                                              req[w].inputs.material).total_cost

\* C16: the mass objective of every evaluated design is (base volume + total
\* rib volume - hole volume) times the density of the material.
C16_MassSubtractsHole ==
    \A w \in Procs :
        \A i \in 1..Len(req[w].run.off) :
            LET e == req[w].run.off[i]
                params == EvalParams(e.X)
            IN  e.F[1] = (BaseVolume(params)
                            + RibVolumeEach(params) * params.rib_count
                            - HoleVolume(params))
                           * MaterialTable[req[w].inputs.material].density

\* the stored rib_count (held in 1/200) rounded to the nearest integer, ties
\* to the even one
NearestInteger(v) ==
    LET q == v \div 200
        r == v % 200
    IN  IF r < 100 THEN q ELSE IF r > 100 THEN q + 1
        ELSE IF q % 2 = 0 THEN q ELSE q + 1

\* C17: the mass, the cost and the manufacturability constraint of every
\* evaluated design, and the rib_count of every report entry, are computed
\* from the stored rib_count rounded to the nearest integer, and that integer
\* is one of 2, 3, 4, 5.
C17_RibCountRoundedBeforeUse ==
    \A w \in Procs :
        LET run == req[w].run
            material == MaterialTable[req[w].inputs.material]
        IN  /\ \A i \in 1..Len(run.off) :
                  LET e == run.off[i]
                      ribs == NearestInteger(e.X[4])
                      params == [base_length |-> e.X[1], base_width |-> e.X[2],
                                 base_thickness |-> e.X[3], rib_count |-> ribs,
                                 rib_thickness |-> e.X[5], fillet_radius |-> e.X[6],
                                 hole_diameter |-> e.X[7]]
                  IN  /\ ribs \in {2, 3, 4, 5}
                      /\ e.F[1] = (BaseVolume(params) + RibVolumeEach(params) * ribs)
                                     * material.density
                      /\ (run.cost_calls - Len(run.off) + i) \notin env.faults =>
                            e.F[2] = calculate_manufacturing_cost(
                                         params, req[w].inputs.material).total_cost
                      /\ e.G[1] = SafetyFactorNum
                                      * predict_with_uncertainty("stress", params).mean
                                    - 100 * SafetyFactorDen * material.yield_strength
                      /\ e.G[2] = predict_with_uncertainty("deflection", params).mean
                                    - MaxDeflection
                      /\ e.G[3] = IF check_dfm_rules(params).is_valid THEN 0 ELSE 1
            /\ Returned(w) =>
                  \A k \in 1..Len(req[w].results[1].pareto_front) :
                      LET entry == req[w].results[1].pareto_front[k]
                      IN  /\ entry.parameters.rib_count
                                = NearestInteger(Behind(w, entry).X[4])
                          /\ entry.parameters.rib_count \in {2, 3, 4, 5}

\* a design whose stored rib_count is not an integer and rounds upwards was
\* evaluated and is reported in a returned front
C17_Witness ==
    \E w \in Procs :
        /\ Returned(w)
        /\ \E k \in 1..Len(req[w].results[1].pareto_front) :
              LET entry == req[w].results[1].pareto_front[k]
                  stored_ribs == Behind(w, entry).X[4]
              IN  /\ stored_ribs % 200 # 0
                  /\ entry.parameters.rib_count * 200 > stored_ribs

\* the population standard deviation of the members' predictions for a
\* design, in the unit of the predictions (rounded down)
MembersStd(kind, params) ==
    LET n == EnsembleSize
        total == SumSeq([m \in 1..n |-> ModelPredict(kind, m, params)])
        squares == SumSeq([m \in 1..n |->
                      (n * ModelPredict(kind, m, params) - total)
                        * (n * ModelPredict(kind, m, params) - total)])
    IN  Isqrt(squares \div n) \div n

\* C18: in every reported entry the 95% interval of the stress and that of
\* the deflection are 1.96 times the standard deviation of the members'
\* predictions for the reported design (to the reported precision), and the
\* standard deviations are not negative.
C18_IntervalIsStdTimes196 ==
    \A w \in Procs :
        Returned(w) =>
            \A k \in 1..Len(req[w].results[1].pareto_front) :
                LET entry == req[w].results[1].pareto_front[k]
                    s == MembersStd("stress", entry.parameters)
                    d == MembersStd("deflection", entry.parameters)
                IN  /\ s >= 0 /\ d >= 0
                    /\ entry.stress_confidence_95 >= 0
                    /\ entry.deflection_confidence_95 >= 0
                    /\ Abs(100 * entry.stress_confidence_95 - 196 * s) <= 50
                    /\ Abs(100 * entry.deflection_confidence_95 - 196 * d) <= 50

\* an entry was reported whose members disagree on the stress and on the
\* deflection
C18_Witness ==
    \E w \in Procs :
        /\ Returned(w)
        /\ \E k \in 1..Len(req[w].results[1].pareto_front) :
              /\ req[w].results[1].pareto_front[k].stress_confidence_95 > 0
              /\ req[w].results[1].pareto_front[k].deflection_confidence_95 > 0

\* C19: when the reference dataset is missing, empty or unreadable, the
\* stress sigma of a run is the fixed default, not an absent value: the
\* module global holds the default once the run has resolved it, and a
\* returned payload reports it and gives every entry its stress_ci95.
C19_SigmaFallsBackToDefault ==
    \A w \in Procs :
        env.dataset \in {"missing", "empty"} =>
            /\ req[w].run.phase # "None" => GLOBAL_STRESS_SIGMA = <<DefaultSigma>>
            /\ Returned(w) =>
                  /\ req[w].results[1].stress_sigma = <<DefaultSigma>>
                  /\ \A k \in 1..Len(req[w].results[1].pareto_front) :
                        req[w].results[1].pareto_front[k].stress_ci95 # <<>>

\* s is t with one entry appended
ExtendsByOne(s, t) == Len(s) = Len(t) + 1 /\ SubSeq(s, 1, Len(t)) = t

C21_MentorLogGenerations ==
    \A w \in Procs :
        LET problem == req[w].run.problem
            k == problem.current_generation
        IN  IF k = 0 THEN problem.logs = <<>>
            ELSE /\ Len(problem.logs) = 1 + (k \div 5)
                 /\ problem.logs[1].generation = 1
                 /\ \A j \in 2..Len(problem.logs) :
                       problem.logs[j].generation = 5 * (j - 1)

\* a run has passed its tenth generation and holds three messages
C21_Witness ==
    \E w \in Procs :
        /\ req[w].run.problem.current_generation >= 10
        /\ Len(req[w].run.problem.logs) = 3
        /\ req[w].run.problem.logs[3].generation = 10


\* the workers that ran the optimisation for their request and answered it
RanAndAnswered(w) == req[w].pc = "done" /\ req[w].kind = "app" /\ ~req[w].hit

\* C22: when two requests with the same inputs both miss the cache and run,
\* then once both have answered the cache file of their key is a complete
\* readable record and every index entry of their front is the design a
\* single run stores.
C22_ConcurrentWritesDoNotCorrupt ==
    \A v, w \in Procs :
        (/\ v # w
         /\ RanAndAnswered(v) /\ RanAndAnswered(w)
         /\ req[v].cache_key = req[w].cache_key)
        => LET key == req[w].cache_key[1]
               front == req[w].response[1].results[1].pareto_front
           IN  /\ key \in DOMAIN cacheDir
               /\ _load_cached_results(cacheDir[key]) # <<>>
               /\ \A i \in 1..Len(front) :
                     /\ front[i].id \in DOMAIN optimization_cache
                     /\ optimization_cache[front[i].id] = front[i]


\* the individuals a run holds with their evaluation
EvaluatedIn(run) ==
    {run.pop[i] : i \in 1..Len(run.pop)}
        \cup {run.off[i] : i \in 1..Len(run.off)}
        \cup {run.merged[i] : i \in 1..Len(run.merged)}

\* C23: for every design a run evaluates, the rib-spacing rule is applied
\* with a divisor that is never zero (3 at rib_count = 2), and g3 is 0 when
\* the DFM check passes and 1 otherwise.
C23_RibSpacingDefinedAndG3Binary ==
    \A w \in Procs : \A e \in EvaluatedIn(req[w].run) :
        LET params == EvalParams(e.X)
            dfm == check_dfm_rules(params)
        IN  /\ params.rib_count >= 2
            /\ RibSpacingDivisor(params) >= 3
            /\ e.G[3] \in {0, 1}
            /\ e.G[3] = 0 <=> (dfm.violations = <<>>)

\* a run holds a design with two ribs that passes the check next to a design
\* that breaks several rules
C23_Witness ==
    \E w \in Procs :
        /\ \E e \in EvaluatedIn(req[w].run) :
              /\ EvalParams(e.X).rib_count = 2
              /\ RibSpacingDivisor(EvalParams(e.X)) = 3
              /\ e.G[3] = 0
        /\ \E e \in EvaluatedIn(req[w].run) :
              /\ Len(check_dfm_rules(EvalParams(e.X)).violations) >= 2
              /\ e.G[3] = 1


\* C24: once a call of run_optimization in the process has resolved the
\* stress sigma, a later call gets the same value and does not read the
\* reference dataset again.
C24_SigmaEstimatedOnce ==
    \A w \in Procs :
        (lastRun # <<>> /\ req[w].kind = "direct" /\ req[w].run.phase # "None")
        => /\ GLOBAL_STRESS_SIGMA = lastRun[1].sigma
           /\ ~req[w].read_csv


\* the workers whose call of calculate_print_readiness_score has returned
Scored(w) == req[w].kind = "score" /\ req[w].pc = "returned"

\* C25: the readiness score is 100 less 10 per violation, 5 per warning and
\* a time penalty between 0 and 20 (ten points per hour, 20 from two hours
\* on), or 0 when that is negative: a whole number from 0 to 100.
C25_ScoreIsBoundedInteger ==
    \A w \in Procs :
        Scored(w) =>
            LET v == Len(req[w].body[1].violations)
                m == Len(req[w].body[1].warnings)
                t == req[w].body[2]
                score == req[w].results[1]
                penalty == 100 - score - 10 * v - 5 * m
            IN  /\ score \in 0..100
                /\ score > 0 =>
                      /\ penalty \in 0..20
                      /\ t >= 200 => penalty = 20
                      /\ t < 200 => penalty * 10 <= t /\ t < (penalty + 1) * 10
                /\ score = 0 => 10 * v + 5 * m + 20 >= 100

\* a call whose penalties add up to more than 100 returned 0
C25_Witness ==
    \E w \in Procs :
        /\ Scored(w)
        /\ req[w].results[1] = 0
        /\ 10 * Len(req[w].body[1].violations) + 5 * Len(req[w].body[1].warnings) = 100
        /\ req[w].body[2] = 125


\* C26: the rib_count stored in every individual of a run (the fourth
\* variable, in 1/200 rib) is a whole number of ribs between 2 and 5.
C26_StoredRibCountIsInteger ==
    \A w \in Procs : \A e \in EvaluatedIn(req[w].run) :
        /\ e.X[4] % 200 = 0
        /\ e.X[4] \in (2 * 200)..(5 * 200)


\* the cache key of the inputs of a call
KeyOf(inputs) ==
    _compute_request_hash(inputs.load, inputs.material, inputs.pop_size, inputs.n_gen)

\* the call in progress differs from the previous call in the load alone
OnlyLoadDiffers(w) ==
    /\ req[w].kind = "direct"
    /\ lastRun # <<>>
    /\ lastRun[1].inputs.load # req[w].inputs.load
    /\ [lastRun[1].inputs EXCEPT !.load = req[w].inputs.load] = req[w].inputs

\* C27: a run that differs from the previous run in the load alone ends with
\* the same final population (variables, objectives, constraints) and the
\* same front or error, while the cache keys of the two differ exactly when
\* the loads rounded to four decimals differ.
C27_LoadDoesNotInfluenceSearch ==
    \A w \in Procs :
        OnlyLoadDiffers(w) =>
            /\ req[w].pc \in {"returned", "raised"} =>
                  /\ req[w].run.pop = lastRun[1].pop
                  /\ Outcome(req[w]) = lastRun[1].outcome
            /\ (KeyOf(req[w].inputs) # KeyOf(lastRun[1].inputs))
                  <=> (RoundLoad(req[w].inputs.load) # RoundLoad(lastRun[1].inputs.load))

\* a run under 75 N returned the front the run under 50 N had returned
C27_Witness ==
    \E w \in Procs :
        /\ OnlyLoadDiffers(w)
        /\ req[w].pc = "returned"
        /\ req[w].inputs.load = 7500000
        /\ lastRun[1].inputs.load = 5000000
        /\ req[w].inputs.n_gen = AppGen
        /\ req[w].run.problem.load # lastRun[1].inputs.load
        /\ Len(req[w].results[1].pareto_front) >= 1
        /\ KeyOf(req[w].inputs) # KeyOf(lastRun[1].inputs)


\* the step answers the request of worker w with a front
AnswersWithFront(w) ==
    /\ req[w].pc # "done"
    /\ req'[w].pc = "done"
    /\ req'[w].response[1].success

\* the ids of a front
IdsOf(front) == {front[i].id : i \in 1..Len(front)}

\* C28 as stated: no step removes an entry of the index; a step that answers
\* a request stores every design of its front under its id and leaves the
\* entries under other ids as they were, so that get_design_by_id returns
\* the design most recently stored under the id; no other step changes the
\* index.
C28_EveryFrontDesignStored ==
    [][\A w \in AppWorkers :
          /\ DOMAIN optimization_cache \subseteq DOMAIN optimization_cache'
          /\ IF AnswersWithFront(w)
             THEN LET front == req'[w].response[1].results[1].pareto_front
                  IN  /\ \A i \in 1..Len(front) :
                            get_design_by_id(optimization_cache', DemoFront, front[i].id)
                                = <<front[i]>>
                      /\ \A k \in DOMAIN optimization_cache \ IdsOf(front) :
                            optimization_cache'[k] = optimization_cache[k]
             ELSE optimization_cache' = optimization_cache]_vars

\* C28, amended: as above, except that a request answered by a fresh run
\* stores only the designs whose STL file was generated; under the id of a
\* design whose STL generation failed the index is left as it was.
C28_FrontDesignsWithStlStored ==
    [][\A w \in AppWorkers :
          /\ DOMAIN optimization_cache \subseteq DOMAIN optimization_cache'
          /\ IF AnswersWithFront(w)
             THEN LET front == req'[w].response[1].results[1].pareto_front
                  IN  /\ \A i \in 1..Len(front) :
                            IF req'[w].hit \/ front[i].stl_file # <<>>
                            THEN get_design_by_id(optimization_cache', DemoFront, front[i].id)
                                    = <<front[i]>>
                            ELSE get_design_by_id(optimization_cache', DemoFront, front[i].id)
                                    = get_design_by_id(optimization_cache, DemoFront, front[i].id)
                      /\ \A k \in DOMAIN optimization_cache \ IdsOf(front) :
                            optimization_cache'[k] = optimization_cache[k]
             ELSE optimization_cache' = optimization_cache]_vars

\* the small run has been answered after the large one: id 0 holds the design
\* of the small run, id 1 still the design of the large run
C28_Witness ==
    \E w \in AppWorkers :
        /\ req[w].pc = "done"
        /\ ~req[w].hit
        /\ req[w].response[1].success
        /\ LET front == req[w].response[1].results[1].pareto_front
           IN  /\ Len(front) = 1
               /\ get_design_by_id(optimization_cache, DemoFront, 0) = <<front[1]>>
               /\ get_design_by_id(optimization_cache, DemoFront, 1) # <<>>
               /\ optimization_cache[1].parameters # front[1].parameters


\* C29: a request whose call of run_optimization raised is answered with
\* success = false and the text of the exception, and the answer leaves the
\* cache directory and the index as the request found them.
C29_FailedRunLeavesCacheAndIndex ==
    [][\A w \in AppWorkers :
          (req[w].kind = "app" /\ req[w].pc = "raised") =>
              /\ req'[w].pc = "done"
              /\ ~req'[w].response[1].success
              /\ req'[w].response[1].error = req[w].error
              /\ cacheDir' = req[w].before[1].cacheDir
              /\ optimization_cache' = req[w].before[1].index]_vars

\* a run raised at the extraction of its front, and the request was answered
\* with the error while the cache directory and the index held the work of an
\* earlier request
C29_Witness ==
    \E w \in AppWorkers :
        /\ req[w].pc = "done"
        /\ req[w].response # <<>>
        /\ ~req[w].response[1].success
        /\ req[w].runCalls = 1
        /\ req[w].run.phase = "Terminated"
        /\ req[w].before[1].cacheDir # <<>>
        /\ req[w].before[1].index # <<>>
        /\ cacheDir = req[w].before[1].cacheDir
        /\ optimization_cache = req[w].before[1].index


=============================================================================
